---- MODULE Spec2Model ----
(***************************************************************************)
(* A model of the Comet interpreter (chermehdi/comet): the scope chain,    *)
(* the tree-walking evaluator and the Pratt parser, as they are written in *)
(* pkg/eval, pkg/parser and pkg/lexer.                                     *)
(*                                                                         *)
(* Go objects that are mutated in place (CometInt, CometInstance, Scope)   *)
(* live in heaps indexed by address; immutable objects are values.         *)
(* A Go panic and a loop that never ends are outcomes of an evaluation:    *)
(* they are recorded in the evaluator's status and stop everything.        *)
(***************************************************************************)
EXTENDS Integers, Sequences, FiniteSets, TLC

VARIABLES
    phase,      \* position of the driver: "start", "done", "parsed", "ran"
    prog,       \* the description of the program handed to Eval or to Parse
    pre,        \* the evaluator as it was before the operation
    ev,         \* the evaluator: Scopes heap, Scope pointer, Types, heaps, stdout
    outcome,    \* the CometObject returned by Eval, the root node returned by Parse
    sc,         \* scope-chain machine: the Scope objects, the current one, the last call
    pstate,     \* the parser: tokens, CurrentToken, NextToken, Errors
    ast,        \* the root node of a source that is parsed and then evaluated
    lx,         \* the Lexer: src, pos, current, inputSize, line, column
    emitted     \* the tokens returned by Lexer.Next, each with the bytes it consumed

vars == <<phase, prog, pre, ev, outcome, sc, pstate, ast, lx, emitted>>

-----------------------------------------------------------------------------
(* Bounds of the model *)

IntWidth == 3          \* bits of a CometInt in the model (int64 in the code)
MaxDepth == 2          \* nesting depth of blocks / if statements in a body
MaxScopeDepth == 3     \* scope frames pushed in the scope-chain machine
MaxCallDepth == 2       \* frames opened around an assignment
MaxTokens == 2         \* tokens of the input after its opening context
MaxChars == 3          \* bytes of a source handed to the lexer

Modulus == 2 ^ IntWidth
MaxInt == 2 ^ (IntWidth - 1) - 1
MinInt == 0 - 2 ^ (IntWidth - 1)

\* two's complement wrap-around of Go's int64 arithmetic, at the model's width
Wrap(v) == ((v - MinInt) % Modulus) + MinInt

\* a for loop that has run more iterations than there are Ints never ends
MaxIter == Modulus + 1

-----------------------------------------------------------------------------
(* Runtime values: pkg/std types *)

IntType == "INTEGER"
BoolType == "BOOLEAN"
StrType == "STR"
ArrayType == "ARRAY"
FuncType == "FUNCTION"
ErrorType == "ERROR"
RangeType == "RANGE"
ObjType == "OBJECT"
ReturnWrapper == "ReturnWrapper"
Nop == "NOP"

TrueObject == [type |-> BoolType, bval |-> TRUE]
FalseObject == [type |-> BoolType, bval |-> FALSE]
NopInstance == [type |-> Nop]
\* the nil interface value (a missing map entry read as a CometObject)
NilObject == [type |-> "nil"]

CometInt(a) == [type |-> IntType, addr |-> a]
CometStr(s, n) == [type |-> StrType, sval |-> s, Size |-> n]
CometArray(vs) == [type |-> ArrayType, Length |-> Len(vs), Values |-> vs]
CometRange(f, t) == [type |-> RangeType, From |-> f, To |-> t]
CometFunc(name, params, body) ==
    [type |-> FuncType, Name |-> name, Params |-> params, Body |-> body]
CometReturnWrapper(v) == [type |-> ReturnWrapper, inner |-> v]
CometInstance(a) == [type |-> ObjType, iaddr |-> a]

\* fmt.Sprintf(s, params...): the format and its arguments, as text
CreateError(s, params) == [type |-> ErrorType, Message |-> <<s>> \o params]

IsNil(v) == v.type = "nil"

boolValue(condition) == IF condition THEN TrueObject ELSE FalseObject

-----------------------------------------------------------------------------
(* Maps (Go map[string]T) as functions over a finite set of keys *)

EmptyMap == [n \in {} |-> NilObject]
Has(m, k) == k \in DOMAIN m
Put(m, k, v) == [n \in (DOMAIN m) \cup {k} |-> IF n = k THEN v ELSE m[n]]
Del(m, k) == [n \in (DOMAIN m) \ {k} |-> m[n]]

-----------------------------------------------------------------------------
(* Scope: a heap of Scope objects; address 0 is the nil parent *)

NewScopeObj(parent) == [Variables |-> EmptyMap, Parent |-> parent]

\* NewScope(parent): allocates a Scope; returns the heap and the new address
NewScope(scopes, parent) ==
    [scopes |-> Append(scopes, NewScopeObj(parent)), at |-> Len(scopes) + 1]

RECURSIVE Lookup(_, _, _)
\* Lookup that consults the local scope only
Lookup_LocalOnly(scopes, s, varName) ==
    IF Has(scopes[s].Variables, varName)
    THEN [obj |-> scopes[s].Variables[varName], ok |-> TRUE]
    ELSE [obj |-> NilObject, ok |-> FALSE]

\* (obj, ok): the object bound to varName in scope s or in its parents
Lookup(scopes, s, varName) ==
    IF Has(scopes[s].Variables, varName)
    THEN [obj |-> scopes[s].Variables[varName], ok |-> TRUE]
    ELSE IF scopes[s].Parent # 0
         THEN Lookup(scopes, scopes[s].Parent, varName)
         ELSE [obj |-> NilObject, ok |-> FALSE]

RECURSIVE Store(_, _, _, _)
\* Store that gives up when the local scope does not hold varName
Store_NoParent(scopes, s, varName, obj) ==
    IF Has(scopes[s].Variables, varName)
    THEN [scopes |-> [scopes EXCEPT ![s].Variables = Put(@, varName, obj)],
          ok |-> TRUE]
    ELSE [scopes |-> scopes, ok |-> FALSE]

\* Store that writes the local scope, whoever holds varName
Store_DeclaresLocally(scopes, s, varName, obj) ==
    [scopes |-> [scopes EXCEPT ![s].Variables = Put(@, varName, obj)], ok |-> TRUE]

\* (scopes, ok): overwrite varName in the nearest scope that holds it
Store(scopes, s, varName, obj) ==
    IF Has(scopes[s].Variables, varName)
    THEN [scopes |-> [scopes EXCEPT ![s].Variables = Put(@, varName, obj)],
          ok |-> TRUE]
    ELSE IF scopes[s].Parent # 0
         THEN Store(scopes, scopes[s].Parent, varName, obj)
         ELSE [scopes |-> scopes, ok |-> FALSE]

\* create the symbol in the local scope
Declare(scopes, s, varName, obj) ==
    [scopes EXCEPT ![s].Variables = Put(@, varName, obj)]

Clear(scopes, s, name) ==
    [scopes EXCEPT ![s].Variables = Del(@, name)]

-----------------------------------------------------------------------------
(* AST nodes: pkg/parser. A field keeps the name it has in the Go struct    *)
(* unless two node types use one name for values of different types.        *)

NilNode == [kind |-> "nil"]
RootNode(sts) == [kind |-> "RootNode", Statements |-> sts]
NumberLiteral(n) == [kind |-> "NumberLiteral", ActualValue |-> n]
BooleanLiteral(b) == [kind |-> "BooleanLiteral", BoolValue |-> b]
StringLiteral(s) == [kind |-> "StringLiteral", StrValue |-> s]
ArrayLiteral(es) == [kind |-> "ArrayLiteral", Elements |-> es]
IdentifierExpression(name) == [kind |-> "IdentifierExpression", Name |-> name]
PrefixExpression(op, right) == [kind |-> "PrefixExpression", Op |-> op, Right |-> right]
BinaryExpression(op, left, right) ==
    [kind |-> "BinaryExpression", Op |-> op, Left |-> left, Right |-> right]
ParenthesisedExpression(e) == [kind |-> "ParenthesisedExpression", Expression |-> e]
CallExpression(name, args) == [kind |-> "CallExpression", Name |-> name, Arguments |-> args]
IndexAccess(target, index) == [kind |-> "IndexAccess", Identifier |-> target, Index |-> index]
AssignExpression(name, value) == [kind |-> "AssignExpression", VarName |-> name, Value |-> value]
NewCallExpr(t, args) == [kind |-> "NewCallExpr", Type |-> t, Args |-> args]
DeclarationStatement(name, e) ==
    [kind |-> "DeclarationStatement", IdentifierLiteral |-> name, Expression |-> e]
ReturnStatement(e) == [kind |-> "ReturnStatement", Expression |-> e]
BlockStatement(sts) == [kind |-> "BlockStatement", Statements |-> sts]
EmptyBlock == BlockStatement(<< >>)
IfStatement(test, then, else) ==
    [kind |-> "IfStatement", Test |-> test, Then |-> then, Else |-> else]
FunctionStatement(name, params, block) ==
    [kind |-> "FunctionStatement", Name |-> name, Parameters |-> params, Block |-> block]
ForStatement(key, value, range, body) ==
    [kind |-> "ForStatement", Key |-> key, Value |-> value, Range |-> range, Body |-> body]
StructDeclarationStatement(name, methods) ==
    [kind |-> "StructDeclarationStatement", Name |-> name, Methods |-> methods]

-----------------------------------------------------------------------------
(* The evaluator: pkg/eval. Every eval function takes the evaluator and     *)
(* returns the evaluator it leaves behind with the CometObject it returns.  *)

\* NewEvaluator(): empty Types, one global Scope, the std builtins
NewEvaluator ==
    [Scopes |-> << NewScopeObj(0) >>,   \* every Scope allocated so far
     Scope |-> 1,                       \* ev.Scope
     Types |-> EmptyMap,                \* ev.Types
     Builtins |-> {"printf", "println"},
     ints |-> << >>,                    \* the CometInt objects, by address
     insts |-> << >>,                   \* the CometInstance objects, by address
     out |-> << >>,                     \* what the builtins wrote to stdout
     status |-> "ok"]                   \* "ok", "panic" or "diverge"

R(e, v) == [ev |-> e, res |-> v]
Ok(r) == r.ev.status = "ok"
\* a Go panic: the evaluation is abandoned where it stands
Panic(e) == R([e EXCEPT !.status = "panic"], NilObject)
Diverge(e) == R([e EXCEPT !.status = "diverge"], NilObject)
\* calling a method (Type, ToString) on the nil interface panics
Deref(r) == IF Ok(r) /\ IsNil(r.res) THEN Panic(r.ev) ELSE r

\* &std.CometInt{Value: v}: a new object on the heap
NewInt(e, v) == R([e EXCEPT !.ints = Append(@, v)], CometInt(Len(e.ints) + 1))
IntOf(e, v) == e.ints[v.addr]

isError(obj) == obj.type = ErrorType

unwrap(result) ==
    IF result.type = ReturnWrapper THEN result.inner ELSE result

\* the ToString() of a CometObject, as far as error messages show it
ObjToString(e, v) ==
    IF v.type = IntType THEN <<"CometInt", ToString(IntOf(e, v))>>
    ELSE IF v.type = BoolType THEN <<"CometBool", ToString(v.bval)>>
    ELSE IF v.type = ErrorType THEN <<"Comet error: ">> \o v.Message
    ELSE <<v.type>>

-----------------------------------------------------------------------------
(* Operators on values *)

\* Go's integer division truncates toward zero
Quot(a, b) ==
    LET q == (IF a < 0 THEN 0 - a ELSE a) \div (IF b < 0 THEN 0 - b ELSE b)
    IN  IF (a < 0) = (b < 0) THEN q ELSE 0 - q

\* applyOp: both operands are CometInt
applyOp(e, op, left, right) ==
    LET l == IntOf(e, left)
        r == IntOf(e, right)
    IN  CASE op = "+" -> NewInt(e, Wrap(l + r))
          [] op = "-" -> NewInt(e, Wrap(l - r))
          [] op = "*" -> NewInt(e, Wrap(l * r))
          [] op = "/" -> IF r = 0 THEN Panic(e)   \* integer divide by zero
                         ELSE NewInt(e, Wrap(Quot(l, r)))
          [] op = "==" -> R(e, boolValue(l = r))
          [] op = "!=" -> R(e, boolValue(l # r))
          [] op = "<=" -> R(e, boolValue(l <= r))
          [] op = "<" -> R(e, boolValue(l < r))
          [] op = ">=" -> R(e, boolValue(l >= r))
          [] op = ">" -> R(e, boolValue(l > r))
          [] op = ".." -> R(e, CometRange(l, r))
          [] OTHER -> R(e, CreateError("Cannot recognize binary operator %s", <<op>>))

applyStrOp(e, op, left, right) ==
    IF op = "+"
    THEN R(e, CometStr(left.sval \o right.sval, left.Size + right.Size))
    ELSE R(e, CreateError("Cannot execute binary operator '%s' on strings", <<op>>))

applyBoolOp(e, op, left, right) ==
    CASE op = "==" -> R(e, boolValue(left.bval = right.bval))
      [] op = "!=" -> R(e, boolValue(left.bval # right.bval))
      [] OTHER -> R(e, CreateError("None-applicable operator %s for booleans", <<op>>))

RECURSIVE Digits(_)
\* the decimal digits of a natural number
Digits(n) ==
    IF n < 10 THEN << ToString(n) >> ELSE Digits(n \div 10) \o << ToString(n % 10) >>

\* strconv.FormatInt(v, 10)
FormatInt(v) == IF v < 0 THEN << "-" >> \o Digits(0 - v) ELSE Digits(v)
\* strconv.FormatBool(b)
FormatBool(b) == IF b THEN << "t", "r", "u", "e" >> ELSE << "f", "a", "l", "s", "e" >>

\* std.ToString: the CometStr of an object; panics on the types it leaves out
StdToString(e, object) ==
    CASE object.type = StrType -> R(e, object)
      [] object.type = BoolType -> R(e, CometStr(FormatBool(object.bval), 4))
      [] object.type = IntType ->
            LET value == FormatInt(IntOf(e, object)) IN R(e, CometStr(value, Len(value)))
      [] object.type = FuncType ->
            LET value == << "C", "o", "m", "e", "t", "F", "u", "n", "c" >>
            IN  R(e, CometStr(value, Len(value)))
      [] object.type = ErrorType -> R(e, CometStr(object.Message, Len(object.Message)))
      [] OTHER -> Panic(e)

RECURSIVE Repeat(_, _)
\* strings.Repeat(s, count) for count >= 0
Repeat(s, count) == IF count <= 0 THEN << >> ELSE s \o Repeat(s, count - 1)

\* extractPrimitive, as what fmt.Println then writes
extractPrimitive(e, object) ==
    CASE object.type = StrType -> [str |-> object.sval]
      [] object.type = BoolType -> [bool |-> object.bval]
      [] object.type = IntType -> [int |-> IntOf(e, object)]
      [] OTHER -> [obj |-> object.type]

\* ev.Builtins[name].Func(args...)
invokeBuiltin(e, name, args) ==
    IF name = "println"
    THEN IF Len(args) = 0
         THEN R([e EXCEPT !.out = Append(@, [newline |-> TRUE])], NopInstance)
         ELSE IF Len(args) # 1
              THEN R(e, CreateError("Expected 0 or 1 arguments, got %d.", <<ToString(Len(args))>>))
              ELSE R([e EXCEPT !.out = Append(@, extractPrimitive(e, args[1]))], NopInstance)
    ELSE \* printf
         IF Len(args) = 0
         THEN R(e, CreateError("Expected 1 or more arguments, got none.", << >>))
         ELSE IF IsNil(args[1]) THEN Panic(e)
         ELSE IF args[1].type # StrType
              THEN R(e, CreateError("First argument expected to be CometString got '%s' instead",
                                    <<args[1].type>>))
              ELSE R([e EXCEPT !.out = Append(@, [format |-> args[1].sval,
                          args |-> [i \in 1..(Len(args) - 1) |-> extractPrimitive(e, args[i + 1])]])],
                     NopInstance)

\* an Add that replaces the method of that name
StructAdd_Overwrites(s, fn) ==
    [s |-> [s EXCEPT !.MethodMap = Put(@, fn.Name, fn)], err |-> << >>]

\* CometStruct.Add: an error when the method name is taken
StructAdd(s, fn) ==
    IF Has(s.MethodMap, fn.Name)
    THEN [s |-> s, err |-> <<"Method already exist with the name '%s' on '%s' struct", fn.Name, s.Name>>]
    ELSE [s |-> [s EXCEPT !.MethodMap = Put(@, fn.Name, fn)], err |-> << >>]

\* std.NewInstance(typeDec): a new object with an empty field map
NewInstance(e, typeDec) ==
    R([e EXCEPT !.insts = Append(@, [Struct |-> typeDec, Fields |-> EmptyMap])],
      CometInstance(Len(e.insts) + 1))

-----------------------------------------------------------------------------
(* Eval and the functions it dispatches to *)

RECURSIVE Eval(_, _)
RECURSIVE evalRootNodeFrom(_, _, _, _)
RECURSIVE evalStatementsFrom(_, _, _, _)
RECURSIVE evalPrefixExpression(_, _)
RECURSIVE evalBinaryExpression(_, _)
RECURSIVE evalConditional(_, _)
RECURSIVE evalDeclareStatement(_, _)
RECURSIVE evalCallExpression(_, _)
RECURSIVE evalForStatement(_, _)
RECURSIVE evalArrayAccess(_, _)
RECURSIVE EvalAssignExpression(_, _)
RECURSIVE evalNewCall(_, _)
RECURSIVE callOnObject(_, _, _, _)
RECURSIVE evalList(_, _, _, _)
RECURSIVE bindArguments(_, _, _, _, _)
RECURSIVE evalMethodParams(_, _, _, _, _)
RECURSIVE evalConstructorParams(_, _, _, _, _)
RECURSIVE forLoop(_, _, _, _, _)

\* a root that evaluates on after a return and unwraps the last result
evalRootNodeFrom_NoStop(e, statements, i, res) ==
    IF i > Len(statements) THEN R(e, unwrap(res))
    ELSE LET r == Eval(e, statements[i])
         IN  IF ~Ok(r) THEN r
             ELSE IF r.res.type = ErrorType THEN r
             ELSE evalRootNodeFrom(r.ev, statements, i + 1, r.res)

\* the loop of evalRootNode from statement i on, res being the last result
evalRootNodeFrom(e, statements, i, res) ==
    IF i > Len(statements) THEN R(e, res)
    ELSE LET r == Eval(e, statements[i])
         IN  IF ~Ok(r) THEN r
             ELSE IF r.res.type = ReturnWrapper THEN R(r.ev, r.res.inner)
             ELSE IF r.res.type = ErrorType THEN r
             ELSE evalRootNodeFrom(r.ev, statements, i + 1, r.res)

evalRootNode(e, statements) == evalRootNodeFrom(e, statements, 1, NopInstance)

\* a block that evaluates on after a return
evalStatementsFrom_NoStop(e, statements, i, res) ==
    IF i > Len(statements) THEN R(e, res)
    ELSE LET r == Eval(e, statements[i])
         IN  IF ~Ok(r) THEN r
             ELSE IF r.res.type = ErrorType THEN r
             ELSE evalStatementsFrom(r.ev, statements, i + 1, r.res)

\* the loop of evalStatements from statement i on: the wrapper is kept
evalStatementsFrom(e, statements, i, res) ==
    IF i > Len(statements) THEN R(e, res)
    ELSE LET r == Eval(e, statements[i])
         IN  IF ~Ok(r) THEN r
             ELSE IF r.res.type = ReturnWrapper THEN r
             ELSE IF r.res.type = ErrorType THEN r
             ELSE evalStatementsFrom(r.ev, statements, i + 1, r.res)

evalStatements(e, statements) == evalStatementsFrom(e, statements, 1, NopInstance)

\* the elements of exprs from i on, evaluated in order with no check: acc \o values
evalList(e, exprs, i, acc) ==
    IF i > Len(exprs) THEN [ev |-> e, vals |-> acc]
    ELSE LET r == Eval(e, exprs[i])
         IN  IF ~Ok(r) THEN [ev |-> r.ev, vals |-> acc]
             ELSE evalList(r.ev, exprs, i + 1, Append(acc, r.res))

evalArrayElements(e, arr) ==
    LET l == evalList(e, arr.Elements, 1, << >>)
    IN  IF l.ev.status # "ok" THEN R(l.ev, NilObject) ELSE R(l.ev, CometArray(l.vals))

evalIdentifier(e, n) ==
    LET l == Lookup(e.Scopes, e.Scope, n.Name)
    IN  IF ~l.ok
        THEN R(e, CreateError("Identifier (%s) is not bounded to any value, have you tried declaring it?",
                              <<n.Name>>))
        ELSE R(e, l.obj)

registerFunc(e, n) ==
    LET function == CometFunc(n.Name, n.Parameters, n.Block)
    IN  R([e EXCEPT !.Scopes = Declare(@, e.Scope, n.Name, function)], function)

evalStructDecl(e, decl) ==
    LET addAll[i \in 0..Len(decl.Methods)] ==
            IF i = 0 THEN [s |-> [Name |-> decl.Name, MethodMap |-> EmptyMap], err |-> << >>]
            ELSE IF addAll[i - 1].err # << >> THEN addAll[i - 1]
            ELSE LET m == decl.Methods[i]
                 IN  StructAdd(addAll[i - 1].s, CometFunc(m.Name, m.Parameters, m.Block))
        a == addAll[Len(decl.Methods)]
    IN  IF a.err # << >> THEN R(e, CreateError(a.err[1], Tail(a.err)))
        ELSE R([e EXCEPT !.Types = Put(@, a.s.Name, a.s)], NopInstance)

evalPrefixExpression(e, n) ==
    LET r == Deref(Eval(e, n.Right))
    IN  IF ~Ok(r) THEN r
        ELSE IF isError(r.res) THEN r
        ELSE IF n.Op = "-"
             THEN IF r.res.type # IntType
                  THEN R(r.ev, CreateError("Cannot apply operator (-) on none INTEGER type %s",
                                           <<r.res.type>>))
                  \* result.Value *= -1 on the object itself
                  ELSE R([r.ev EXCEPT !.ints[r.res.addr] = Wrap(0 - @)], r.res)
        ELSE IF n.Op = "!"
             THEN IF r.res.type # BoolType
                  THEN R(r.ev, CreateError("Cannot apply operator (!) on none BOOLEAN type %s",
                                           <<r.res.type>>))
                  ELSE R(r.ev, IF r.res.bval THEN FalseObject ELSE TrueObject)
        ELSE R(r.ev, CreateError("Unrecognized prefix operator %s", <<n.Op>>))

evalConditional(e, n) ==
    LET r == Deref(Eval(e, n.Test))
    IN  IF ~Ok(r) THEN r
        ELSE IF r.res.type # BoolType
             THEN R(r.ev, CreateError(
                     "Test part of the if statement should evaluate to CometBool, evaluated to %s instead",
                     ObjToString(r.ev, r.res)))
        ELSE IF r.res.bval THEN Eval(r.ev, n.Then) ELSE Eval(r.ev, n.Else)

evalDeclareStatement(e, n) ==
    LET r == Deref(Eval(e, n.Expression))
    IN  IF ~Ok(r) THEN r
        ELSE IF isError(r.res) THEN r
        ELSE R([r.ev EXCEPT !.Scopes = Declare(@, r.ev.Scope, n.IdentifierLiteral, r.res)], r.res)

\* an assignment that declares the identifier when no scope holds it
EvalAssignExpression_Declares(e, n) ==
    LET r == Deref(Eval(e, n.Value))
    IN  IF ~Ok(r) THEN r
        ELSE LET obj == unwrap(r.res)
                 st == Store(r.ev.Scopes, r.ev.Scope, n.VarName, obj)
             IN  R([r.ev EXCEPT !.Scopes = IF st.ok THEN st.scopes
                                           ELSE Declare(@, r.ev.Scope, n.VarName, obj)],
                   obj)

EvalAssignExpression(e, n) ==
    IF ~Lookup(e.Scopes, e.Scope, n.VarName).ok
    THEN R(e, CreateError("Identifier (%s) is not bounded to any value, have you tried declaring it?",
                          <<n.VarName>>))
    ELSE LET r == Deref(Eval(e, n.Value))
         IN  IF ~Ok(r) THEN r
             ELSE LET obj == unwrap(r.res)
                  IN  R([r.ev EXCEPT !.Scopes = Store(@, r.ev.Scope, n.VarName, obj).scopes], obj)

evalArrayAccess(e, arr) ==
    LET a == Deref(Eval(e, arr.Identifier))
    IN  IF ~Ok(a) THEN a
        ELSE IF a.res.type # ArrayType
             THEN R(a.ev, CreateError("Expected CometArray got %s", <<a.res.type>>))
        ELSE LET x == Deref(Eval(a.ev, arr.Index))
             IN  IF ~Ok(x) THEN x
                 ELSE IF x.res.type # IntType
                      THEN R(x.ev, CreateError("Expected CometInt got %s", <<x.res.type>>))
                 ELSE LET indexVal == IntOf(x.ev, x.res)
                      IN  IF indexVal < 0 \/ indexVal >= a.res.Length
                          THEN R(x.ev, CreateError(
                                  "Array access out of bounds, array of length %d, index was: %d",
                                  <<ToString(a.res.Length), ToString(indexVal)>>))
                          ELSE R(x.ev, a.res.Values[indexVal + 1])

\* callSiteScope.Variables[param.Name] = ev.Eval(n.Arguments[i]), for params from i on
bindArguments(e, callSiteScope, params, args, i) ==
    IF i > Len(params) THEN e
    ELSE IF i > Len(args) THEN [e EXCEPT !.status = "panic"]   \* index out of range
    ELSE LET r == Eval(e, args[i])
         IN  IF ~Ok(r) THEN r.ev
             ELSE bindArguments(
                     [r.ev EXCEPT !.Scopes = Declare(@, callSiteScope, params[i].Name, r.res)],
                     callSiteScope, params, args, i + 1)

\* a call whose frame hangs below the global scope, where functions are declared
callFunction_GlobalParent(e, n, funObj) ==
    LET callSiteScope == NewScope(e.Scopes, 1)
        b == bindArguments([e EXCEPT !.Scopes = callSiteScope.scopes], callSiteScope.at,
                           funObj.Params, n.Arguments, 1)
        oldScope == b.Scope
        r == Eval([b EXCEPT !.Scope = callSiteScope.at], funObj.Body)
    IN  IF b.status # "ok" THEN R(b, NilObject)
        ELSE IF ~Ok(r) THEN r
        ELSE R([r.ev EXCEPT !.Scope = oldScope], r.res)

\* a call that leaves the callee's Scope current
callFunction_NoRestore(e, n, funObj) ==
    LET ns == NewScope(e.Scopes, e.Scope)
        b == bindArguments([e EXCEPT !.Scopes = ns.scopes], ns.at,
                           funObj.Params, n.Arguments, 1)
    IN  IF b.status # "ok" THEN R(b, NilObject)
        ELSE Eval([b EXCEPT !.Scope = ns.at], funObj.Body)

\* the call of a user function: a new Scope, the arguments, the body, the old Scope
callFunction(e, n, funObj) ==
    LET callSiteScope == NewScope(e.Scopes, e.Scope)
        b == bindArguments([e EXCEPT !.Scopes = callSiteScope.scopes], callSiteScope.at,
                           funObj.Params, n.Arguments, 1)
        oldScope == b.Scope
        r == Eval([b EXCEPT !.Scope = callSiteScope.at], funObj.Body)
    IN  IF b.status # "ok" THEN R(b, NilObject)
        ELSE IF ~Ok(r) THEN r
        ELSE R([r.ev EXCEPT !.Scope = oldScope], r.res)

evalCallExpression(e, n) ==
    IF n.Name \in e.Builtins
    THEN LET l == evalList(e, n.Arguments, 1, << >>)
         IN  IF l.ev.status # "ok" THEN R(l.ev, NilObject)
             ELSE invokeBuiltin(l.ev, n.Name, l.vals)
    ELSE LET l == Lookup(e.Scopes, e.Scope, n.Name)
         IN  IF ~l.ok THEN R(e, CreateError("Cannot find callable symbol %s", <<n.Name>>))
             ELSE IF IsNil(l.obj) THEN Panic(e)
             ELSE IF l.obj.type # FuncType
                  THEN R(e, CreateError("Cannot invoke none callable object of type %s",
                                        <<l.obj.type>>))
             ELSE callFunction(e, n, l.obj)

\* the for loop from i on: i is Go's loop variable, count the iterations done so far
forLoop(e, n, i, to, count) ==
    IF ~(i <= to) THEN R(e, NopInstance)
    ELSE IF count >= MaxIter THEN Diverge(e)
    ELSE LET k == NewInt(e, i)
             e1 == [k.ev EXCEPT !.Scopes = Declare(@, k.ev.Scope, n.Key.Name, k.res)]
             v == NewInt(e1, i)
             e2 == [v.ev EXCEPT !.Scopes = Declare(@, v.ev.Scope, n.Value.Name, v.res)]
             r == Eval(e2, n.Body)
         IN  IF ~Ok(r) THEN r
             ELSE forLoop(r.ev, n, Wrap(i + 1), to, count + 1)

\* a for statement that runs in the current scope
evalForStatement_NoScope(e, n) ==
    LET obj == Deref(Eval(e, n.Range))
    IN  IF ~Ok(obj) THEN obj
        ELSE IF obj.res.type # RangeType THEN Panic(obj.ev)
        ELSE LET r == forLoop(obj.ev, n, obj.res.From, obj.res.To, 0)
             IN  IF ~Ok(r) THEN r
                 ELSE R([r.ev EXCEPT
                            !.Scopes = Clear(Clear(@, r.ev.Scope, n.Key.Name),
                                             r.ev.Scope, n.Value.Name)],
                        NopInstance)

evalForStatement(e, n) ==
    LET obj == Deref(Eval(e, n.Range))
    IN  IF ~Ok(obj) THEN obj
        ELSE IF obj.res.type # RangeType THEN Panic(obj.ev)   \* "not implemented yet!!"
        ELSE LET oldScope == obj.ev.Scope
                 curScope == NewScope(obj.ev.Scopes, oldScope)
                 r == forLoop([obj.ev EXCEPT !.Scopes = curScope.scopes, !.Scope = curScope.at],
                              n, obj.res.From, obj.res.To, 0)
             IN  IF ~Ok(r) THEN r
                 ELSE R([r.ev EXCEPT
                            !.Scopes = Clear(Clear(@, r.ev.Scope, n.Key.Name),
                                             r.ev.Scope, n.Value.Name),
                            !.Scope = oldScope],
                        NopInstance)

\* a binding loop that gives every Param the value of the first
BindParams_First(variables, params) ==
    LET bound[i \in 0..Len(params)] ==
            IF i = 0 THEN variables ELSE Put(bound[i - 1], params[i].Name, params[1].Val)
    IN  bound[Len(params)]

\* callSiteScope.Variables[p.Name] = p.Val for every Param, in order
BindParams(variables, params) ==
    LET bound[i \in 0..Len(params)] ==
            IF i = 0 THEN variables ELSE Put(bound[i - 1], params[i].Name, params[i].Val)
    IN  bound[Len(params)]

callOnObject(e, name, object, params) ==
    LET methods == e.insts[object.iaddr].Struct.MethodMap
    IN  IF Has(methods, name)
        THEN LET ns == NewScope(e.Scopes, e.Scope)
                 scopes == [ns.scopes EXCEPT ![ns.at].Variables =
                               BindParams(Put(@, "this", object), params)]
                 oldScope == e.Scope
                 r == Eval([e EXCEPT !.Scopes = scopes, !.Scope = ns.at], methods[name].Body)
             IN  IF ~Ok(r) THEN r
                 ELSE LET back == Deref(R([r.ev EXCEPT !.Scope = oldScope], r.res))
                      IN  IF ~Ok(back) THEN back ELSE R(back.ev, unwrap(back.res))
        ELSE R(e, CreateError("Method '%s' Not found on instance of type '%s'",
                              <<name, e.insts[object.iaddr].Struct.Name>>))

\* the Params of a method call: one per argument, those past the declared
\* parameters left as the zero Param
evalMethodParams(e, mparams, args, i, acc) ==
    IF i > Len(mparams)
    THEN [ev |-> e, err |-> NilObject,
          params |-> acc \o [j \in 1..(Len(args) - Len(mparams)) |-> [Name |-> "", Val |-> NilObject]]]
    ELSE LET v == Deref(Eval(e, args[i]))
         IN  IF ~Ok(v) THEN [ev |-> v.ev, err |-> NilObject, params |-> acc]
             ELSE IF v.res.type = ErrorType THEN [ev |-> v.ev, err |-> v.res, params |-> acc]
             ELSE evalMethodParams(v.ev, mparams, args, i + 1,
                                   Append(acc, [Name |-> mparams[i].Name, Val |-> v.res]))

\* the Params of a constructor call: one per argument, named by the declared parameters
evalConstructorParams(e, cparams, args, i, acc) ==
    IF i > Len(args) THEN [ev |-> e, err |-> NilObject, params |-> acc]
    ELSE LET v == Deref(Eval(e, args[i]))
         IN  IF ~Ok(v) THEN [ev |-> v.ev, err |-> NilObject, params |-> acc]
             ELSE IF v.res.type = ErrorType THEN [ev |-> v.ev, err |-> v.res, params |-> acc]
             ELSE IF i > Len(cparams)     \* constructor.Params[i]: index out of range
                  THEN [ev |-> [v.ev EXCEPT !.status = "panic"], err |-> NilObject, params |-> acc]
             ELSE evalConstructorParams(v.ev, cparams, args, i + 1,
                                        Append(acc, [Name |-> cparams[i].Name, Val |-> v.res]))

evalNewCall(e, expr) ==
    IF ~Has(e.Types, expr.Type)
    THEN R(e, CreateError("Type '%s' not found", <<expr.Type>>))
    ELSE LET t == e.Types[expr.Type]
             instance == NewInstance(e, t)
         IN  IF ~Has(t.MethodMap, "init")
             THEN IF Len(expr.Args) > 0
                  THEN R(instance.ev, CreateError(
                          "Cannot find a defined constructor on the '%s' type, make sure to define an 'init' method on the struct",
                          <<t.Name>>))
                  ELSE instance
             ELSE LET ps == evalConstructorParams(instance.ev, t.MethodMap["init"].Params,
                                                  expr.Args, 1, << >>)
                      res == callOnObject(ps.ev, "init", instance.res, ps.params)
                  IN  IF ps.ev.status # "ok" THEN R(ps.ev, NilObject)
                      ELSE IF ~IsNil(ps.err) THEN R(ps.ev, ps.err)
                      ELSE IF ~Ok(res) THEN res
                      ELSE IF res.res.type = ErrorType THEN res
                      ELSE R(res.ev, instance.res)

\* a SetField that keeps the fields with the struct: every instance of the
\* struct gets the value
SetField_OnStruct(e, instance, name, value) ==
    LET val == Eval(e, value)
        struct == val.ev.insts[instance.iaddr].Struct.Name
    IN  IF ~Ok(val) THEN val.ev
        ELSE [val.ev EXCEPT !.insts =
                [i \in 1..Len(@) |->
                    IF @[i].Struct.Name = struct
                    THEN [@[i] EXCEPT !.Fields = Put(@, name, val.res)]
                    ELSE @[i]]]

\* SetField: the value is stored as it comes; the evaluator it leaves behind
SetField(e, instance, name, value) ==
    LET val == Eval(e, value)
    IN  IF ~Ok(val) THEN val.ev
        ELSE [val.ev EXCEPT !.insts[instance.iaddr].Fields = Put(@, name, val.res)]

\* the '.' branch of evalBinaryExpression, left being the evaluated left operand
evalDot(e, n, left) ==
    IF n.Right.kind = "AssignExpression"
    THEN IF left.type # ObjType THEN Panic(e)     \* left.(*CometInstance)
         ELSE LET set == SetField(e, left, n.Right.VarName, n.Right.Value)
              IN  IF set.status # "ok" THEN R(set, NilObject) ELSE R(set, NopInstance)
    ELSE IF n.Right.kind = "IdentifierExpression"
    THEN IF left.type # ObjType THEN Panic(e)
         ELSE LET fields == e.insts[left.iaddr].Fields
              IN  R(e, IF Has(fields, n.Right.Name) THEN fields[n.Right.Name] ELSE NilObject)
    ELSE IF n.Right.kind # "CallExpression"
    THEN R(e, CreateError("Used '.' operator with none function element", << >>))
    ELSE IF left.type # ObjType
    THEN R(e, CreateError("Cannot call method '%s' on none object type", <<n.Right.Name>>))
    ELSE LET fn == n.Right
             struct == e.insts[left.iaddr].Struct
         IN  IF ~Has(struct.MethodMap, fn.Name)
             THEN R(e, CreateError("Could not find method '%s' on type '%s'",
                                   <<fn.Name, struct.Name>>))
             ELSE LET method == struct.MethodMap[fn.Name]
                  IN  IF Len(method.Params) > Len(fn.Arguments)
                      THEN R(e, CreateError(
                              "Method '%s' on type '%s' expects at least %d parameters, %d were given",
                              <<method.Name, struct.Name, ToString(Len(method.Params)),
                                ToString(Len(fn.Arguments))>>))
                      ELSE LET ps == evalMethodParams(e, method.Params, fn.Arguments, 1, << >>)
                           IN  IF ps.ev.status # "ok" THEN R(ps.ev, NilObject)
                               ELSE IF ~IsNil(ps.err) THEN R(ps.ev, ps.err)
                               ELSE callOnObject(ps.ev, fn.Name, left, ps.params)

\* an operator application that has no case for operands of different types
applyBinary_NoMixedEquality(e, n, left, right) ==
    IF left.type = IntType /\ right.type = IntType THEN applyOp(e, n.Op, left, right)
    ELSE IF left.type = BoolType /\ right.type = BoolType THEN applyBoolOp(e, n.Op, left, right)
    ELSE IF left.type = StrType /\ right.type = StrType THEN applyStrOp(e, n.Op, left, right)
    ELSE R(e, CreateError("Cannot apply operator %s on given types %v and %v",
                          <<n.Op, left.type, right.type>>))

\* the operator applied to two evaluated operands
applyBinary(e, n, left, right) ==
    IF left.type = IntType /\ right.type = IntType THEN applyOp(e, n.Op, left, right)
    ELSE IF left.type = BoolType /\ right.type = BoolType THEN applyBoolOp(e, n.Op, left, right)
    ELSE IF left.type = StrType /\ right.type = StrType THEN applyStrOp(e, n.Op, left, right)
    ELSE IF left.type = StrType \/ right.type = StrType
    THEN IF n.Op = "+"
         THEN LET l == StdToString(e, left)
                  r == StdToString(e, right)
              IN  IF ~Ok(l) THEN l ELSE IF ~Ok(r) THEN r
                  ELSE applyStrOp(e, n.Op, l.res, r.res)
         ELSE IF n.Op = "*" /\ (left.type = IntType \/ right.type = IntType)
         THEN LET str == IF left.type = IntType THEN right ELSE left
                  count == IntOf(e, IF left.type = IntType THEN left ELSE right)
              IN  IF count < 0 THEN Panic(e)      \* strings.Repeat: negative Repeat count
                  ELSE R(e, CometStr(Repeat(str.sval, count), count * str.Size))
         ELSE R(e, CreateError("Cannot apply operation '%s' on operands of type '%s' and '%s'",
                               <<n.Op, left.type, right.type>>))
    ELSE IF left.type # right.type /\ n.Op = "==" THEN R(e, FalseObject)
    ELSE IF left.type # right.type /\ n.Op = "!=" THEN R(e, TrueObject)
    ELSE R(e, CreateError("Cannot apply operator %s on given types %v and %v",
                          <<n.Op, left.type, right.type>>))

evalBinaryExpression(e, n) ==
    LET left == Deref(Eval(e, n.Left))
    IN  IF ~Ok(left) THEN left
        ELSE IF isError(left.res) THEN left
        ELSE IF n.Op = "." THEN evalDot(left.ev, n, left.res)
        ELSE LET right == Deref(Eval(left.ev, n.Right))
             IN  IF ~Ok(right) THEN right
                 ELSE IF isError(right.res) THEN right
                 ELSE applyBinary(right.ev, n, left.res, right.res)

\* unwrap(result) at a call site: result.Type() on the nil interface panics
unwrapResult(r) ==
    LET d == Deref(r) IN IF ~Ok(d) THEN d ELSE R(d.ev, unwrap(d.res))

Eval(e, node) ==
    CASE node.kind = "RootNode" -> evalRootNode(e, node.Statements)
      [] node.kind = "PrefixExpression" -> evalPrefixExpression(e, node)
      [] node.kind = "NumberLiteral" -> NewInt(e, node.ActualValue)
      [] node.kind = "BooleanLiteral" ->
            R(e, IF node.BoolValue THEN TrueObject ELSE FalseObject)
      [] node.kind = "StringLiteral" -> R(e, CometStr(node.StrValue, Len(node.StrValue)))
      [] node.kind = "ArrayLiteral" -> evalArrayElements(e, node)
      [] node.kind = "BinaryExpression" -> evalBinaryExpression(e, node)
      [] node.kind = "ParenthesisedExpression" -> Eval(e, node.Expression)
      [] node.kind = "IfStatement" -> evalConditional(e, node)
      [] node.kind = "BlockStatement" -> evalStatements(e, node.Statements)
      [] node.kind = "ReturnStatement" ->
            LET r == Deref(Eval(e, node.Expression))
            IN  IF ~Ok(r) THEN r
                ELSE IF isError(r.res) THEN r
                ELSE R(r.ev, CometReturnWrapper(r.res))
      [] node.kind = "DeclarationStatement" -> evalDeclareStatement(e, node)
      [] node.kind = "IdentifierExpression" -> evalIdentifier(e, node)
      [] node.kind = "FunctionStatement" -> registerFunc(e, node)
      [] node.kind = "CallExpression" -> unwrapResult(evalCallExpression(e, node))
      [] node.kind = "AssignExpression" -> EvalAssignExpression(e, node)
      [] node.kind = "IndexAccess" -> evalArrayAccess(e, node)
      [] node.kind = "ForStatement" -> unwrapResult(evalForStatement(e, node))
      [] node.kind = "StructDeclarationStatement" -> evalStructDecl(e, node)
      [] node.kind = "NewCallExpr" -> evalNewCall(e, node)
      [] OTHER -> R(e, NopInstance)

-----------------------------------------------------------------------------
(* Programs handed to the evaluator. A program is described by a record     *)
(* (its family and parameters) and built into a root node by a builder.     *)

Id(name) == IdentifierExpression(name)
Num(n) == NumberLiteral(n)
Text(c) == StringLiteral(<< c >>)
\* println("c"): leaves the mark c on stdout
Say(c) == CallExpression("println", << Text(c) >>)
Mark(c) == [str |-> << c >>]
Empty == IdentifierExpression("__empty__")

\* sequences over S of length 0..n
SeqsUpTo(S, n) == UNION { [1..k -> S] : k \in 0..n }

WrapKinds == {"block", "then", "else", "skip"}
LeafKinds == {"return", "print"}

RECURSIVE SpineStmts(_, _, _)
\* The statements  println("b"); <inner>; println("a")  where <inner> is the
\* leaf (return val, or println("l")) under the wrappers, outermost first:
\*   block: { ... }            then: if true { ... }
\*   else:  if false { println("n") } else { ... }
\*   skip:  if false { ... }   (the inner statements are not reached)
SpineStmts(wraps, leaf, val) ==
    LET inner ==
            IF wraps = << >>
            THEN IF leaf = "return" THEN ReturnStatement(Num(val)) ELSE Say("l")
            ELSE LET body == BlockStatement(SpineStmts(Tail(wraps), leaf, val))
                 IN  CASE Head(wraps) = "block" -> body
                       [] Head(wraps) = "then" -> IfStatement(BooleanLiteral(TRUE), body, EmptyBlock)
                       [] Head(wraps) = "else" ->
                             IfStatement(BooleanLiteral(FALSE),
                                         BlockStatement(<< Say("n") >>), body)
                       [] Head(wraps) = "skip" -> IfStatement(BooleanLiteral(FALSE), body, EmptyBlock)
    IN  << Say("b"), inner, Say("a") >>

FuncF(wraps, leaf, val) ==
    FunctionStatement("f", << >>, BlockStatement(SpineStmts(wraps, leaf, val)))

\* the root node of a program of the "ret" family
RetRoot(d) ==
    CASE d.ctx = "root" -> RootNode(SpineStmts(d.wraps, d.leaf, d.val))
      [] d.ctx = "func" ->
            RootNode(<< FuncF(d.wraps, d.leaf, d.val),
                        DeclarationStatement("r", CallExpression("f", << >>)),
                        Say("c") >>)
      [] d.ctx = "nested" ->
            RootNode(<< FuncF(d.wraps, d.leaf, d.val),
                        FunctionStatement("g", << >>, BlockStatement(<<
                            DeclarationStatement("t", CallExpression("f", << >>)),
                            Say("m"),
                            ReturnStatement(Id("t")) >>)),
                        DeclarationStatement("r", CallExpression("g", << >>)),
                        Say("c") >>)
      [] d.ctx = "method" ->
            RootNode(<< StructDeclarationStatement("S", <<
                            FunctionStatement("m", << >>,
                                BlockStatement(SpineStmts(d.wraps, d.leaf, d.val))) >>),
                        DeclarationStatement("o", NewCallExpr("S", << >>)),
                        DeclarationStatement("r",
                            BinaryExpression(".", Id("o"), CallExpression("m", << >>))),
                        Say("c") >>)

RetPrograms ==
    { [family |-> "ret", ctx |-> c, wraps |-> w, leaf |-> l, val |-> v] :
        c \in {"root", "func", "nested", "method"}, w \in SeqsUpTo(WrapKinds, MaxDepth),
        l \in LeafKinds, v \in {0, 2} }

\* the literal n as the parser builds it: -n is a prefix minus on a number
Lit(n) == IF n < 0 THEN PrefixExpression("-", Num(0 - n)) ELSE Num(n)
Range(lo, hi) == BinaryExpression("..", Lit(lo), Lit(hi))
For(key, range, body) == ForStatement(Id(key), Empty, range, BlockStatement(body))

\* "forret": a return inside the body of  for k in lo..hi , directly or
\* under an if, at the root or in the body of f
ForRetLoop(d) ==
    LET ret == ReturnStatement(Num(d.val))
    IN  For("k", Range(d.lo, d.hi),
            << Say("i"),
               IF d.inner = "if" THEN IfStatement(BooleanLiteral(TRUE), BlockStatement(<< ret >>), EmptyBlock)
                                 ELSE ret,
               Say("a") >>)

ForRetRoot(d) ==
    IF d.ctx = "root"
    THEN RootNode(<< ForRetLoop(d), Say("z") >>)
    ELSE RootNode(<< FunctionStatement("f", << >>, BlockStatement(<< ForRetLoop(d), Say("z") >>)),
                     DeclarationStatement("r", CallExpression("f", << >>)),
                     Say("c") >>)

ForRetPrograms ==
    { [family |-> "forret", ctx |-> c, inner |-> i, lo |-> l, hi |-> h, val |-> v] :
        c \in {"root", "func"}, i \in {"direct", "if"},
        l \in 0..1, h \in 1..2, v \in {0, 2} }

\* "for":  for k in lo..hi { println(k) }  with or without an assignment
\* to k in the body, for all bounds the literals can express
ForRoot(d) ==
    RootNode(<< For("k", Range(d.lo, d.hi),
                    << CallExpression("println", << Id("k") >>) >>
                    \o (IF d.assign THEN << AssignExpression("k", Num(0)) >> ELSE << >>)),
                Say("z") >>)

ForPrograms ==
    { [family |-> "for", lo |-> l, hi |-> h, assign |-> a] :
        l \in (0 - MaxInt)..MaxInt, h \in (0 - MaxInt)..MaxInt, a \in BOOLEAN }

\* "err": the undeclared identifier u, whose evaluation yields an Error, as
\* a sub-node of every kind of expression and statement
ErrContexts ==
    {"prefix", "bang", "binleft", "binright", "paren", "return", "declare", "assign",
     "iftest", "ifthen", "block", "array", "indextarget", "indexindex", "builtinarg",
     "callarg", "callbody", "forrange", "forbody", "rangeleft", "newarg", "methodarg",
     "fieldset", "dotleft"}

ErrNode(ctx) ==
    LET u == Id("u")
    IN  CASE ctx = "prefix" -> PrefixExpression("-", u)
          [] ctx = "bang" -> PrefixExpression("!", u)
          [] ctx = "binleft" -> BinaryExpression("+", u, Num(1))
          [] ctx = "binright" -> BinaryExpression("+", Num(1), u)
          [] ctx = "paren" -> ParenthesisedExpression(u)
          [] ctx = "return" -> ReturnStatement(u)
          [] ctx = "declare" -> DeclarationStatement("b", u)
          [] ctx = "assign" -> AssignExpression("a", u)
          [] ctx = "iftest" -> IfStatement(u, BlockStatement(<< Num(1) >>), EmptyBlock)
          [] ctx = "ifthen" -> IfStatement(BooleanLiteral(TRUE), BlockStatement(<< u >>), EmptyBlock)
          [] ctx = "block" -> BlockStatement(<< u, Say("n") >>)
          [] ctx = "array" -> ArrayLiteral(<< u >>)
          [] ctx = "indextarget" -> IndexAccess(u, Num(0))
          [] ctx = "indexindex" -> IndexAccess(ArrayLiteral(<< Num(1) >>), u)
          [] ctx = "builtinarg" -> CallExpression("println", << u >>)
          [] ctx = "callarg" -> CallExpression("f", << u >>)
          [] ctx = "callbody" -> CallExpression("g", << >>)
          [] ctx = "forrange" -> For("k", u, << Num(1) >>)
          [] ctx = "forbody" -> For("k", Range(0, 0), << u >>)
          [] ctx = "rangeleft" -> BinaryExpression("..", u, Num(1))
          [] ctx = "newarg" -> NewCallExpr("S", << u >>)
          [] ctx = "methodarg" -> BinaryExpression(".", Id("o"), CallExpression("m", << u >>))
          [] ctx = "fieldset" -> BinaryExpression(".", Id("o"), AssignExpression("x", u))
          [] ctx = "dotleft" -> BinaryExpression(".", u, Id("x"))

\* func f(p) { 1 }  func g() { u }
\* struct S { func init(q) { this.x = q }  func m(p) { p } }
\* var o = new S(0)   var a = 1
Prelude ==
    << FunctionStatement("f", << Id("p") >>, BlockStatement(<< Num(1) >>)),
       FunctionStatement("g", << >>, BlockStatement(<< Id("u") >>)),
       StructDeclarationStatement("S", <<
           FunctionStatement("init", << Id("q") >>, BlockStatement(<<
               BinaryExpression(".", Id("this"), AssignExpression("x", Id("q"))) >>)),
           FunctionStatement("m", << Id("p") >>, BlockStatement(<< Id("p") >>)) >>),
       DeclarationStatement("o", NewCallExpr("S", << Num(0) >>)),
       DeclarationStatement("a", Num(1)) >>

ErrRoot(d) ==
    LET node == ErrNode(d.ctx)
    IN  CASE d.level = "root" -> RootNode(Prelude \o << node, Say("z") >>)
          [] d.level = "if" ->
                RootNode(Prelude \o
                    << IfStatement(BooleanLiteral(TRUE),
                                   BlockStatement(<< node, Say("y") >>), EmptyBlock),
                       Say("z") >>)
          [] d.level = "func" ->
                RootNode(Prelude \o
                    << FunctionStatement("w", << >>, BlockStatement(<< node, Say("y") >>)),
                       CallExpression("w", << >>),
                       Say("z") >>)

ErrPrograms ==
    { [family |-> "err", ctx |-> c, level |-> l] :
        c \in ErrContexts, l \in {"root", "if", "func"} }

\* "assign":  x = E  evaluated under a chain of frames, outermost first, each
\* opened by a function call or by a for statement; holds is the set of
\* depths (0 the global scope) whose frame declares x (var x = depth) before.
FrameKinds == {"call", "for"}
FrameNames == << "f1", "f2", "f3", "f4" >>
RhsKinds == {"lit", "inc", "call"}

\* the right-hand side E:  -1 ,  x + 1  or  h()  (func h() { return 2 })
Rhs(kind) ==
    CASE kind = "lit" -> Lit(0 - 1)
      [] kind = "inc" -> BinaryExpression("+", Id("x"), Num(1))
      [] kind = "call" -> CallExpression("h", << >>)

RECURSIVE AssignLevel(_, _)
\* the statements evaluated in the frame of depth j
AssignLevel(d, j) ==
    LET decl == IF j \in d.holds THEN << DeclarationStatement("x", Num(j)) >> ELSE << >>
    IN  IF j = Len(d.frames)
        THEN decl \o << AssignExpression("x", Rhs(d.rhs)) >>
        ELSE decl \o
             << IF d.frames[j + 1] = "call"
                THEN CallExpression(FrameNames[j + 1], << >>)
                ELSE For("k", Range(0, 0), AssignLevel(d, j + 1)) >>

RECURSIVE AssignFuncs(_, _)
\* the declarations of the functions that open the call frames from depth j on
AssignFuncs(d, j) ==
    IF j > Len(d.frames) THEN << >>
    ELSE (IF d.frames[j] = "call"
          THEN << FunctionStatement(FrameNames[j], << >>, BlockStatement(AssignLevel(d, j))) >>
          ELSE << >>)
         \o AssignFuncs(d, j + 1)

AssignRoot(d) ==
    RootNode(<< FunctionStatement("h", << >>, BlockStatement(<< ReturnStatement(Num(2)) >>)) >>
             \o AssignFuncs(d, 1) \o AssignLevel(d, 0))

AssignPrograms ==
    UNION { { [family |-> "assign", frames |-> f, holds |-> h, rhs |-> r] :
                h \in SUBSET (0..Len(f)), r \in RhsKinds } :
            f \in SeqsUpTo(FrameKinds, MaxCallDepth) }

\* "balance": a function call, a method call, a constructor call or a for
\* statement whose body declares loc and finishes with a value, a return or
\* an Error, followed by  var after = 1 , at the root or in the body of g
OpKinds == {"call", "method", "ctor", "for"}
FinishKinds == {"value", "return", "error"}

\* var loc = 1; then the last statement of the body
Finishing(finish) ==
    << DeclarationStatement("loc", Num(1)),
       CASE finish = "value" -> Id("loc")
         [] finish = "return" -> ReturnStatement(Id("loc"))
         [] finish = "error" -> Id("u") >>

\* func f(p) { <body> }
\* struct S { func init(q) { this.x = q }  func m(p) { <body> } }
\* struct T { func init(p) { <body> } }
BalanceDecls(d) ==
    << FunctionStatement("f", << Id("p") >>, BlockStatement(Finishing(d.finish))),
       StructDeclarationStatement("S", <<
           FunctionStatement("init", << Id("q") >>, BlockStatement(<<
               BinaryExpression(".", Id("this"), AssignExpression("x", Id("q"))) >>)),
           FunctionStatement("m", << Id("p") >>, BlockStatement(Finishing(d.finish))) >>),
       StructDeclarationStatement("T", <<
           FunctionStatement("init", << Id("p") >>, BlockStatement(Finishing(d.finish))) >>) >>

BalanceOp(d) ==
    CASE d.kind = "call" -> CallExpression("f", << Num(1) >>)
      [] d.kind = "method" -> BinaryExpression(".", Id("o"), CallExpression("m", << Num(1) >>))
      [] d.kind = "ctor" -> NewCallExpr("T", << Num(1) >>)
      [] d.kind = "for" -> For("k", Range(0, 1), Finishing(d.finish))

BalanceRoot(d) ==
    LET body == << BalanceOp(d), DeclarationStatement("after", Num(1)), Say("z") >>
        o == DeclarationStatement("o", NewCallExpr("S", << Num(0) >>))
    IN  IF d.ctx = "root"
        THEN RootNode(BalanceDecls(d) \o << o >> \o body)
        ELSE RootNode(BalanceDecls(d) \o
                      << FunctionStatement("g", << >>, BlockStatement(body)),
                         o,
                         CallExpression("g", << >>),
                         DeclarationStatement("top", Num(1)) >>)

BalancePrograms ==
    { [family |-> "balance", kind |-> k, finish |-> f, ctx |-> c] :
        k \in OpKinds, f \in FinishKinds, c \in {"root", "func"} }

-----------------------------------------------------------------------------
(* The driver (cmd/main.go): one evaluator, one root node evaluated *)

\* "binop": the statement  l op r  on two operands, after  func g() {}  and
\* struct T {} . An operand is described by its kind and, for the kinds with
\* several values, by which value it is.
BinOps == {"+", "-", "*", "/", "==", "!=", "<", "<=", ">", ">=", ".."}
ArithmeticOps == {"+", "-", "*", "/"}
ComparisonOps == {"==", "!=", "<", "<=", ">", ">="}

\* an expression that evaluates to the Int n: a literal has no sign, and the
\* least Int is the value of no negated literal
IntExpr(n) ==
    IF n = MinInt THEN BinaryExpression("-", Lit(MinInt + 1), Num(1)) ELSE Lit(n)

Operands ==
    { [kind |-> IntType, int |-> n, which |-> 0] : n \in MinInt..MaxInt }
    \cup { [kind |-> k, int |-> 0, which |-> w] : k \in {BoolType, StrType, ArrayType}, w \in 0..1 }
    \cup { [kind |-> k, int |-> 0, which |-> 0] : k \in {RangeType, FuncType, ObjType, Nop} }

OperandExpr(o) ==
    CASE o.kind = IntType -> IntExpr(o.int)
      [] o.kind = BoolType -> BooleanLiteral(o.which = 1)
      [] o.kind = StrType -> IF o.which = 1 THEN Text("a") ELSE Text("b")
      [] o.kind = ArrayType ->
            IF o.which = 1 THEN ArrayLiteral(<< Num(1) >>) ELSE ArrayLiteral(<< >>)
      [] o.kind = RangeType -> ParenthesisedExpression(Range(0, 1))
      [] o.kind = FuncType -> Id("g")
      [] o.kind = ObjType -> NewCallExpr("T", << >>)
      [] o.kind = Nop -> CallExpression("println", << >>)

BinopRoot(d) ==
    RootNode(<< FunctionStatement("g", << >>, EmptyBlock),
                StructDeclarationStatement("T", << >>),
                BinaryExpression(d.op, OperandExpr(d.l), OperandExpr(d.r)) >>)

BinopPrograms ==
    { [family |-> "binop", op |-> o, l |-> l, r |-> r] :
        o \in BinOps, l \in Operands, r \in Operands }

\* "index": the statement  target[index]  after  struct T {}  and
\* var o = new T() . The target is an array of 0..2 numbers (1, 2), a value
\* that is no array, or the field of o that was never set; the index is an
\* Int, a value that is no Int, or that field.
MaxArrayLen == 2
IndexTargets ==
    { [kind |-> ArrayType, len |-> n] : n \in 0..MaxArrayLen }
    \cup { [kind |-> k, len |-> 0] : k \in {IntType, BoolType, StrType, "field", "unbound"} }
IndexIndexes ==
    { [kind |-> IntType, int |-> n] : n \in MinInt..MaxInt }
    \cup { [kind |-> k, int |-> 0] : k \in {BoolType, StrType, ArrayType, "field", "unbound"} }

\* o.f, in parentheses: a field that o does not have
MissingField == ParenthesisedExpression(BinaryExpression(".", Id("o"), Id("f")))

IndexOperand(kind) ==
    CASE kind = IntType -> Num(1)
      [] kind = BoolType -> BooleanLiteral(TRUE)
      [] kind = StrType -> Text("a")
      [] kind = ArrayType -> ArrayLiteral(<< >>)
      [] kind = "field" -> MissingField
      [] kind = "unbound" -> Id("u")

IndexRoot(d) ==
    RootNode(<< StructDeclarationStatement("T", << >>),
                DeclarationStatement("o", NewCallExpr("T", << >>)),
                IndexAccess(
                    IF d.target.kind = ArrayType
                    THEN ArrayLiteral([i \in 1..d.target.len |-> Num(i)])
                    ELSE IndexOperand(d.target.kind),
                    IF d.index.kind = IntType THEN IntExpr(d.index.int)
                    ELSE IndexOperand(d.index.kind)) >>)

IndexPrograms ==
    { [family |-> "index", target |-> t, index |-> i] : t \in IndexTargets, i \in IndexIndexes }

\* "struct": the declaration  struct T { names }  of methods with the given
\* names, method i having the body { i }; when prior, after  struct T { z }
MaxMethods == 3
MethodNames == {"a", "b", "init"}

DeclaredMethod(names, i) ==
    FunctionStatement(names[i], << >>, BlockStatement(<< Num(i) >>))

StructRoot(d) ==
    RootNode(
        (IF d.prior
         THEN << StructDeclarationStatement("T", <<
                    FunctionStatement("z", << >>, EmptyBlock) >>) >>
         ELSE << >>)
        \o << StructDeclarationStatement("T",
                 [i \in 1..Len(d.names) |-> DeclaredMethod(d.names, i)]) >>)

StructPrograms ==
    { [family |-> "struct", names |-> ns, prior |-> b] :
        ns \in SeqsUpTo(MethodNames, MaxMethods), b \in BOOLEAN }

\* "new": the expression  new T(1, ..)  with nargs arguments, after no
\* declaration of T, after  struct T {}  or after a T whose init has nparams
\* parameters and a body that sets a field of this, is empty, returns a
\* number or evaluates an unbound identifier
MaxArgs == 3
ParamNames == << "p1", "p2", "p3", "p4" >>
InitBodies == {"set", "empty", "return", "error"}

InitBody(kind) ==
    CASE kind = "set" ->
            << BinaryExpression(".", Id("this"), AssignExpression("x", Num(1))) >>
      [] kind = "empty" -> << >>
      [] kind = "return" -> << ReturnStatement(Num(1)) >>
      [] kind = "error" -> << Id("u") >>

NewDeclaration(d) ==
    CASE d.type = "none" -> << >>
      [] d.type = "plain" -> << StructDeclarationStatement("T", << >>) >>
      [] d.type = "init" ->
            << StructDeclarationStatement("T", <<
                  FunctionStatement("init", [i \in 1..d.nparams |-> Id(ParamNames[i])],
                                    BlockStatement(InitBody(d.body))) >>) >>

NewRoot(d) ==
    RootNode(NewDeclaration(d) \o << NewCallExpr("T", [i \in 1..d.nargs |-> Num(1)]) >>)

NewPrograms ==
    { [family |-> "new", type |-> t, nparams |-> 0, body |-> "empty", nargs |-> n] :
        t \in {"none", "plain"}, n \in 0..MaxArgs }
    \cup { [family |-> "new", type |-> "init", nparams |-> np, body |-> b, nargs |-> n] :
             np \in 0..MaxArgs, b \in InitBodies, n \in 0..MaxArgs }

\* "method": the call  o.m(1, 2, ..)  with nargs arguments on an instance of
\*   struct T { func m(p1, ..) { println("m") this.x = 1 return [p1, ..] } }
\* whose method declares nparams parameters
MethodM(nparams) ==
    FunctionStatement("m", [i \in 1..nparams |-> Id(ParamNames[i])],
        BlockStatement(<<
            Say("m"),
            BinaryExpression(".", Id("this"), AssignExpression("x", Num(1))),
            ReturnStatement(ArrayLiteral([i \in 1..nparams |-> Id(ParamNames[i])])) >>))

MethodRoot(d) ==
    RootNode(<< StructDeclarationStatement("T", << MethodM(d.nparams) >>),
                DeclarationStatement("o", NewCallExpr("T", << >>)),
                BinaryExpression(".", Id("o"),
                    CallExpression("m", [i \in 1..d.nargs |-> Num(i)])) >>)

MethodPrograms ==
    { [family |-> "method", nparams |-> np, nargs |-> n] :
        np \in 0..MaxArgs, n \in 0..MaxArgs }

\* "field": two instances of
\*   struct T { func init() { this.f = 0 }  func set(p) { this.f = p }
\*              func setg(p) { this.g = p }  func get() { return this.f } }
\* bound to a and b, and c bound to the instance of a; then up to MaxWrites
\* writes, write i storing the number i in field f or g of a, b or c by
\* obj.field = i  or by the method that sets the field; then every field is
\* read:  [a.f, a.g, a.get(), b.f, b.g, b.get(), c.f, c.g, c.get()]
MaxWrites == 2
FieldObjects == << "a", "b", "c" >>

ThisAssign(field, value) ==
    BinaryExpression(".", Id("this"), AssignExpression(field, value))

StructT ==
    StructDeclarationStatement("T", <<
        FunctionStatement("init", << >>, BlockStatement(<< ThisAssign("f", Num(0)) >>)),
        FunctionStatement("set", << Id("p") >>, BlockStatement(<< ThisAssign("f", Id("p")) >>)),
        FunctionStatement("setg", << Id("p") >>, BlockStatement(<< ThisAssign("g", Id("p")) >>)),
        FunctionStatement("get", << >>, BlockStatement(<<
            ReturnStatement(BinaryExpression(".", Id("this"), Id("f"))) >>)) >>)

FieldWrite(w, i) ==
    IF w.via = "dot"
    THEN BinaryExpression(".", Id(w.obj), AssignExpression(w.field, Num(i)))
    ELSE BinaryExpression(".", Id(w.obj),
             CallExpression(IF w.field = "f" THEN "set" ELSE "setg", << Num(i) >>))

FieldReads(obj) ==
    << BinaryExpression(".", Id(obj), Id("f")),
       BinaryExpression(".", Id(obj), Id("g")),
       BinaryExpression(".", Id(obj), CallExpression("get", << >>)) >>

FieldRoot(d) ==
    RootNode(<< StructT,
                DeclarationStatement("a", NewCallExpr("T", << >>)),
                DeclarationStatement("b", NewCallExpr("T", << >>)),
                DeclarationStatement("c", Id("a")) >>
             \o [i \in 1..Len(d.writes) |-> FieldWrite(d.writes[i], i)]
             \o << ArrayLiteral(FieldReads("a") \o FieldReads("b") \o FieldReads("c")) >>)

FieldWrites ==
    { [obj |-> o, via |-> v, field |-> f] :
        o \in {"a", "b", "c"}, v \in {"dot", "method"}, f \in {"f", "g"} }

FieldPrograms ==
    { [family |-> "field", writes |-> ws] : ws \in SeqsUpTo(FieldWrites, MaxWrites) }

\* "forscope":  for k in lo..hi { body }  (or  for k, v in ..) after
\*   var x = 3   and, when shadow,   var k = 3
\* at the root or, for ctx "func", inside the body of f, the variables being
\* global. The body holds, as d says:  var loc = k ,  x = k ,  k = 0 . When
\* probe, the names are read after the loop:  [k, v, loc, x]
ForScopeBody(d) ==
    (IF d.declares THEN << DeclarationStatement("loc", Id(IF d.value THEN "v" ELSE "k")) >>
     ELSE << >>)
    \o (IF d.assigns THEN << AssignExpression("x", Id("k")) >> ELSE << >>)
    \o (IF d.assignsKey THEN << AssignExpression("k", Num(0)) >> ELSE << >>)

ForScopeLoop(d) ==
    ForStatement(Id("k"), IF d.value THEN Id("v") ELSE Empty, Range(d.lo, d.hi),
                 BlockStatement(ForScopeBody(d)))

ForScopeProbe == ArrayLiteral(<< Id("k"), Id("v"), Id("loc"), Id("x") >>)

ForScopeRoot(d) ==
    LET outer == << DeclarationStatement("x", Num(3)) >>
                 \o (IF d.shadow THEN << DeclarationStatement("k", Num(3)) >> ELSE << >>)
    IN  IF d.ctx = "root"
        THEN RootNode(outer \o << ForScopeLoop(d) >>
                      \o (IF d.probe THEN << ForScopeProbe >> ELSE << >>))
        ELSE RootNode(outer \o
                 << FunctionStatement("f", << >>, BlockStatement(
                        << ForScopeLoop(d) >>
                        \o (IF d.probe THEN << ReturnStatement(ForScopeProbe) >> ELSE << >>))),
                    CallExpression("f", << >>) >>)

ForScopePrograms ==
    { [family |-> "forscope", ctx |-> c, shadow |-> s, value |-> v, lo |-> l, hi |-> h,
       declares |-> dc, assigns |-> a, assignsKey |-> ak, probe |-> p] :
        c \in {"root", "func"}, s \in BOOLEAN, v \in BOOLEAN, l \in 0..1, h \in 0..2,
        dc \in BOOLEAN, a \in BOOLEAN, ak \in BOOLEAN, p \in BOOLEAN }

\* "callsite": the callee g (a function, or the method m of struct S) is
\* declared at the root and called from the body of f:
\*   var x = 0 (when gx)   func g(..) { callee }   struct S { func m(..) { callee } }
\*   var o = new S()       func f() { var x = 1 (when fx)  return [g(..), x] }   f()
\* The callee reads x ( return x ), assigns it ( x = 2 ), declares it
\* ( var x = 2 ) or has it as its parameter, the argument being 2.
CalleeKinds == {"read", "assign", "declare", "param"}

CalleeBody(kind) ==
    CASE kind = "read" -> << ReturnStatement(Id("x")) >>
      [] kind = "assign" -> << AssignExpression("x", Num(2)) >>
      [] kind = "declare" -> << DeclarationStatement("x", Num(2)) >>
      [] kind = "param" -> << ReturnStatement(Id("x")) >>

Callee(name, kind) ==
    FunctionStatement(name, IF kind = "param" THEN << Id("x") >> ELSE << >>,
                      BlockStatement(CalleeBody(kind)))

CallSiteRoot(d) ==
    LET args == IF d.callee = "param" THEN << Num(2) >> ELSE << >>
        call == IF d.via = "call" THEN CallExpression("g", args)
                ELSE BinaryExpression(".", Id("o"), CallExpression("m", args))
    IN  RootNode(
            (IF d.gx THEN << DeclarationStatement("x", Num(0)) >> ELSE << >>)
            \o << Callee("g", d.callee),
                  StructDeclarationStatement("S", << Callee("m", d.callee) >>),
                  DeclarationStatement("o", NewCallExpr("S", << >>)),
                  FunctionStatement("f", << >>, BlockStatement(
                      (IF d.fx THEN << DeclarationStatement("x", Num(1)) >> ELSE << >>)
                      \o << ReturnStatement(ArrayLiteral(<< call, Id("x") >>)) >>)),
                  CallExpression("f", << >>) >>)

CallSitePrograms ==
    { [family |-> "callsite", via |-> v, callee |-> c, gx |-> g, fx |-> f] :
        v \in {"call", "method"}, c \in CalleeKinds, g \in BOOLEAN, f \in BOOLEAN }

\* "neg":  struct T {}  var o = new T()  var x = n  var y = x  var a = [x]
\* o.f = x , then  -x  alone, as  (-x) + 1  or as the argument of println, then
\* the values are read:  [x, y, a[0], o.f]
NegUses == {"alone", "operand", "argument"}

NegUse(use) ==
    LET neg == PrefixExpression("-", Id("x"))
    IN  CASE use = "alone" -> neg
          [] use = "operand" -> BinaryExpression("+", ParenthesisedExpression(neg), Num(1))
          [] use = "argument" -> CallExpression("println", << neg >>)

NegRoot(d) ==
    RootNode(<< StructDeclarationStatement("T", << >>),
                DeclarationStatement("o", NewCallExpr("T", << >>)),
                DeclarationStatement("x", IntExpr(d.n)),
                DeclarationStatement("y", Id("x")),
                DeclarationStatement("a", ArrayLiteral(<< Id("x") >>)),
                BinaryExpression(".", Id("o"), AssignExpression("f", Id("x"))),
                NegUse(d.use),
                ArrayLiteral(<< Id("x"), Id("y"), IndexAccess(Id("a"), Num(0)),
                                BinaryExpression(".", Id("o"), Id("f")) >>) >>)

NegPrograms ==
    { [family |-> "neg", n |-> n, use |-> u] : n \in MinInt..MaxInt, u \in NegUses }

\* "errstore":  struct T {}  var o = new T()  o.f = 1  var x = 1 , then the
\* Error-valued expression E ( u , unbound, or  1 < true ) is assigned to x,
\* to o.f, declared as z or put into the array a:
\*   x = E  |  o.f = E  |  var z = E  |  var a = [E]
ErrStoreKinds == {"assign", "field", "declare", "array"}
ErrExprKinds == {"unbound", "operator"}

ErrExpr(kind) ==
    IF kind = "unbound" THEN Id("u")
    ELSE BinaryExpression("<", Num(1), BooleanLiteral(TRUE))

ErrStoreRoot(d) ==
    LET E == ErrExpr(d.rhs)
    IN  RootNode(<< StructDeclarationStatement("T", << >>),
                    DeclarationStatement("o", NewCallExpr("T", << >>)),
                    BinaryExpression(".", Id("o"), AssignExpression("f", Num(1))),
                    DeclarationStatement("x", Num(1)),
                    CASE d.kind = "assign" -> AssignExpression("x", E)
                      [] d.kind = "field" ->
                            BinaryExpression(".", Id("o"), AssignExpression("f", E))
                      [] d.kind = "declare" -> DeclarationStatement("z", E)
                      [] d.kind = "array" -> DeclarationStatement("a", ArrayLiteral(<< E >>)) >>)

ErrStorePrograms ==
    { [family |-> "errstore", kind |-> k, rhs |-> r] : k \in ErrStoreKinds, r \in ErrExprKinds }

\* "arity": the call  f(1, ..)  with nargs arguments of
\*   func f(p1, ..) { return 1 }   declared with nparams parameters
ArityRoot(d) ==
    RootNode(<< FunctionStatement("f", [i \in 1..d.nparams |-> Id(ParamNames[i])],
                                  BlockStatement(<< ReturnStatement(Num(1)) >>)),
                CallExpression("f", [i \in 1..d.nargs |-> Num(1)]) >>)

ArityPrograms ==
    { [family |-> "arity", nparams |-> np, nargs |-> n] :
        np \in 0..MaxArgs, n \in 0..MaxArgs }

NoProgram == [family |-> "none"]

Init ==
    /\ phase = "start"
    /\ prog = NoProgram
    /\ pre = NewEvaluator
    /\ ev = NewEvaluator
    /\ outcome = NopInstance
    /\ sc = [Scopes |-> << NewScopeObj(0) >>, Scope |-> 1, op |-> "init",
             name |-> "", obj |-> NilObject, ok |-> TRUE]
    /\ pstate = [status |-> "none"]
    /\ ast = NilNode
    /\ lx = [status |-> "none"]
    /\ emitted = << >>

\* evaluator := NewEvaluator(); evaluator.Eval(rootNode)
RunProgram(d, root) ==
    /\ phase = "start"
    /\ phase' = "done"
    /\ prog' = d
    /\ pre' = ev
    /\ LET r == Eval(ev, root)
       IN  ev' = r.ev /\ outcome' = r.res
    /\ UNCHANGED << sc, pstate, ast, lx, emitted >>

RunRet == \E d \in RetPrograms : RunProgram(d, RetRoot(d))
RunForRet == \E d \in ForRetPrograms : RunProgram(d, ForRetRoot(d))
RunFor == \E d \in ForPrograms : RunProgram(d, ForRoot(d))
RunErr == \E d \in ErrPrograms : RunProgram(d, ErrRoot(d))
RunAssign == \E d \in AssignPrograms : RunProgram(d, AssignRoot(d))
RunBalance == \E d \in BalancePrograms : RunProgram(d, BalanceRoot(d))
RunBinop == \E d \in BinopPrograms : RunProgram(d, BinopRoot(d))
RunIndex == \E d \in IndexPrograms : RunProgram(d, IndexRoot(d))
RunStruct == \E d \in StructPrograms : RunProgram(d, StructRoot(d))
RunNew == \E d \in NewPrograms : RunProgram(d, NewRoot(d))
RunMethod == \E d \in MethodPrograms : RunProgram(d, MethodRoot(d))
RunField == \E d \in FieldPrograms : RunProgram(d, FieldRoot(d))
RunForScope == \E d \in ForScopePrograms : RunProgram(d, ForScopeRoot(d))
RunCallSite == \E d \in CallSitePrograms : RunProgram(d, CallSiteRoot(d))
RunNeg == \E d \in NegPrograms : RunProgram(d, NegRoot(d))
RunErrStore == \E d \in ErrStorePrograms : RunProgram(d, ErrStoreRoot(d))
RunArity == \E d \in ArityPrograms : RunProgram(d, ArityRoot(d))

Next ==
    \/ RunRet
    \/ RunForRet
    \/ RunFor
    \/ RunErr
    \/ RunAssign
    \/ RunBalance
    \/ RunBinop
    \/ RunIndex
    \/ RunStruct
    \/ RunNew
    \/ RunMethod
    \/ RunField
    \/ RunForScope
    \/ RunCallSite
    \/ RunNeg
    \/ RunErrStore
    \/ RunArity

Spec == Init /\ [][Next]_vars

-----------------------------------------------------------------------------
(* What a program of the "ret" family has to do, read off its description   *)

RECURSIVE SpineOut(_, _)
\* The marks the statements of SpineStmts leave when a return ends them at
\* once, and whether a return was reached.
SpineOut(wraps, leaf) ==
    LET inner ==
            IF wraps = << >>
            THEN IF leaf = "return"
                 THEN [out |-> << >>, returns |-> TRUE]
                 ELSE [out |-> << Mark("l") >>, returns |-> FALSE]
            ELSE IF Head(wraps) = "skip"
                 THEN [out |-> << >>, returns |-> FALSE]
                 ELSE SpineOut(Tail(wraps), leaf)
    IN  [out |-> << Mark("b") >> \o inner.out
                    \o (IF inner.returns THEN << >> ELSE << Mark("a") >>),
         returns |-> inner.returns]

\* the object bound to a name of the global scope (NilObject when unbound)
GlobalOf(e, name) ==
    IF Has(e.Scopes[1].Variables, name) THEN e.Scopes[1].Variables[name] ELSE NilObject

IsIntOf(e, obj, v) == obj.type = IntType /\ IntOf(e, obj) = v

Done(family) == phase = "done" /\ prog.family = family

\* C1: a return at any nesting depth of blocks and ifs inside a function or
\* method body ends that body at once; the call yields the returned value
\* itself (unwrapped once, at the innermost call), and the caller's following
\* statements still run.
C1_ReturnEndsBody ==
    (Done("ret") /\ prog.ctx \in {"func", "nested", "method"}) =>
        LET exp == SpineOut(prog.wraps, prog.leaf)
            r == GlobalOf(ev, "r")
        IN  /\ ev.status = "ok"
            /\ ev.out = exp.out
                          \o (IF prog.ctx = "nested" THEN << Mark("m") >> ELSE << >>)
                          \o << Mark("c") >>
            /\ IF exp.returns THEN IsIntOf(ev, r, prog.val) ELSE r = NopInstance

C1_Witness ==
    /\ Done("ret") /\ prog.ctx = "nested" /\ prog.leaf = "return"
    /\ Len(prog.wraps) = 2 /\ prog.wraps[1] = "else" /\ prog.wraps[2] = "block"
    /\ IsIntOf(ev, GlobalOf(ev, "r"), prog.val)
    /\ ev.out = << Mark("b"), Mark("b"), Mark("b"), Mark("m"), Mark("c") >>

\* C4: the root evaluates its statements in order and stops at the first
\* one whose result is a return, also when the return sits in nested ifs;
\* Eval then yields the returned value unwrapped.
C4_RootStopsAtReturn ==
    (Done("ret") /\ prog.ctx = "root") =>
        LET exp == SpineOut(prog.wraps, prog.leaf)
        IN  /\ ev.status = "ok"
            /\ ev.out = exp.out
            /\ IF exp.returns THEN IsIntOf(ev, outcome, prog.val)
                              ELSE outcome = NopInstance

C4_Witness ==
    /\ Done("ret") /\ prog.ctx = "root" /\ prog.leaf = "return"
    /\ prog.wraps = << "then", "else" >>
    /\ IsIntOf(ev, outcome, prog.val)
    /\ ev.out = << Mark("b"), Mark("b"), Mark("b") >>

\* C2: a  return v  executed inside the body of a for statement stops the
\* loop (no further iteration runs) and propagates to the enclosing call
\* site or the root, which yields v.
C2_ReturnStopsFor ==
    Done("forret") =>
        /\ ev.status = "ok"
        /\ IF prog.ctx = "root"
           THEN ev.out = << Mark("i") >> /\ IsIntOf(ev, outcome, prog.val)
           ELSE /\ ev.out = << Mark("i"), Mark("c") >>
                /\ IsIntOf(ev, GlobalOf(ev, "r"), prog.val)

\* the integers lo, lo+1, ..., hi as println writes them
RECURSIVE Printed(_, _)
Printed(lo, hi) == IF lo > hi THEN << >> ELSE << [int |-> lo] >> \o Printed(lo + 1, hi)

\* C8: for all Int bounds L and H,  for k in L..H  runs its body exactly
\* max(0, H-L+1) times with k = L, L+1, ..., H in that order and then
\* finishes; assignments to k in the body do not change that.
C8_ForIterations ==
    Done("for") =>
        /\ ev.status = "ok"
        /\ ev.out = Printed(prog.lo, prog.hi) \o << Mark("z") >>

\* the Error that evaluating the undeclared identifier name yields
UnboundError(name) ==
    CreateError("Identifier (%s) is not bounded to any value, have you tried declaring it?",
                << name >>)

\* C3: for every expression and statement kind, when evaluating a sub-node
\* yields an Error E, the enclosing node yields that same E unchanged, and E
\* bubbles up to become the result of evaluating the root.
C3_ErrorsPropagate ==
    Done("err") =>
        /\ ev.status = "ok"
        /\ outcome = UnboundError("u")
        /\ ev.out = << >>

\* the scope of the frame of depth j of an "assign" program: frames are
\* created in order of depth, after the global scope
FrameAt(e, j) == e.Scopes[j + 1]

Nearest(holds) == CHOOSE j \in holds : \A i \in holds : i <= j

\* the value of E when the nearest frame holding x has depth near
RhsValue(kind, near) ==
    CASE kind = "lit" -> 0 - 1
      [] kind = "inc" -> near + 1
      [] kind = "call" -> 2

\* C6: when x is declared in some frame of the scope chain and  x = E  is
\* evaluated at any depth, x is afterwards bound to the value of E in the
\* nearest frame that already held x, the other frames keep their binding
\* of x, and no frame has gained a binding for x.
C6_AssignNearest ==
    (Done("assign") /\ prog.holds # {}) =>
        /\ ev.status = "ok"
        /\ Len(ev.Scopes) >= Len(prog.frames) + 1
        /\ \A j \in 0..Len(prog.frames) :
              LET variables == FrameAt(ev, j).Variables
              IN  IF j \notin prog.holds THEN ~Has(variables, "x")
                  ELSE /\ Has(variables, "x")
                       /\ IsIntOf(ev, variables["x"],
                                  IF j = Nearest(prog.holds)
                                  THEN RhsValue(prog.rhs, j) ELSE j)

C6_Witness ==
    /\ Done("assign") /\ prog.holds = {0, 1} /\ Len(prog.frames) = 2
    /\ prog.rhs = "inc"
    /\ IsIntOf(ev, FrameAt(ev, 1).Variables["x"], 2)
    /\ IsIntOf(ev, FrameAt(ev, 0).Variables["x"], 0)
    /\ ~Has(FrameAt(ev, 2).Variables, "x")

\* no for frame lies between the assignment and the root
AllCalls(frames) == \A j \in 1..Len(frames) : frames[j] = "call"

\* C7:  x = E  with x declared in no frame of the scope chain yields the
\* Error "Identifier (x) is not bounded to any value, have you tried
\* declaring it?" and creates no binding for x in any frame.
C7_AssignUndeclared ==
    (Done("assign") /\ prog.holds = {}) =>
        /\ ev.status = "ok"
        /\ AllCalls(prog.frames) => outcome = UnboundError("x")
        /\ \A a \in 1..Len(ev.Scopes) : ~Has(ev.Scopes[a].Variables, "x")

C7_Witness ==
    /\ Done("assign") /\ prog.holds = {} /\ prog.frames = << "call", "call" >>
    /\ prog.rhs = "lit"
    /\ outcome = UnboundError("x")
    /\ Len(ev.Scopes) = 3

\* the frames that hold a binding of name
FramesWith(e, name) == { a \in 1..Len(e.Scopes) : Has(e.Scopes[a].Variables, name) }

\* the statements after the operation are reached: an Error ends the
\* enclosing body, except the one a for statement has dropped
AfterReached(d) == d.finish # "error" \/ d.kind = "for"

\* C9: when the evaluation of a function call, method call, constructor call
\* or for statement finishes (with a value, a return or an Error), the
\* current scope is again the one that was current before it started: after
\* Eval of a root the current scope is the global scope, the names declared
\* in a callee are no longer reachable, and what the caller declares next
\* lands in the caller's own frame.
C9_ScopeBalance ==
    (phase = "done" /\ ev.status = "ok") =>
        /\ ev.Scope = pre.Scope
        /\ prog.family = "balance" =>
              /\ ~Lookup(ev.Scopes, ev.Scope, "loc").ok
              /\ ~Lookup(ev.Scopes, ev.Scope, "p").ok
              /\ AfterReached(prog) <=> FramesWith(ev, "after") # {}
              /\ \A a \in FramesWith(ev, "after") :
                    /\ a \notin FramesWith(ev, "loc") \cup FramesWith(ev, "p")
                    /\ IF prog.ctx = "root" THEN a = 1 ELSE ev.Scopes[a].Parent = 1
              /\ (prog.ctx = "func" /\ AfterReached(prog)) => FramesWith(ev, "top") = {1}

C9_Witness ==
    /\ Done("balance") /\ prog.ctx = "func" /\ prog.kind = "method"
    /\ prog.finish = "return" /\ ev.status = "ok"
    /\ ev.Scope = 1
    /\ FramesWith(ev, "after") # {} /\ FramesWith(ev, "loc") # {}
    /\ FramesWith(ev, "top") = {1}

-----------------------------------------------------------------------------
(* The scope chain on its own: the evaluator's uses of Scope, one at a time. *)
(* sc.Scopes is the heap of frames, sc.Scope the current one (ev.Scope),     *)
(* sc.op the operation done last, sc.name and sc.obj its arguments and      *)
(* sc.ok what it reported.                                                   *)

ScopeNames == {"x", "y"}
ScopeValues == {TrueObject, FalseObject}

\* curScope := NewScope(ev.Scope); ev.Scope = curScope   (a call, a for statement)
ScPush ==
    /\ Len(sc.Scopes) <= MaxScopeDepth
    /\ LET n == NewScope(sc.Scopes, sc.Scope)
       IN  sc' = [Scopes |-> n.scopes, Scope |-> n.at, op |-> "push",
                  name |-> "", obj |-> NilObject, ok |-> TRUE]
    /\ UNCHANGED << phase, prog, pre, ev, outcome, pstate, ast, lx, emitted >>

\* ev.Scope = oldScope: the frame pushed last is left, and nothing refers to it any more
ScLeave ==
    /\ sc.Scopes[sc.Scope].Parent # 0
    /\ sc' = [Scopes |-> SubSeq(sc.Scopes, 1, Len(sc.Scopes) - 1),
              Scope |-> sc.Scopes[sc.Scope].Parent, op |-> "leave",
              name |-> "", obj |-> NilObject, ok |-> TRUE]
    /\ UNCHANGED << phase, prog, pre, ev, outcome, pstate, ast, lx, emitted >>

ScDeclare ==
    /\ \E name \in ScopeNames, obj \in ScopeValues :
          sc' = [sc EXCEPT !.Scopes = Declare(@, sc.Scope, name, obj), !.op = "Declare",
                           !.name = name, !.obj = obj, !.ok = TRUE]
    /\ UNCHANGED << phase, prog, pre, ev, outcome, pstate, ast, lx, emitted >>

ScStore ==
    /\ \E name \in ScopeNames, obj \in ScopeValues :
          LET st == Store(sc.Scopes, sc.Scope, name, obj)
          IN  sc' = [sc EXCEPT !.Scopes = st.scopes, !.op = "Store",
                               !.name = name, !.obj = obj, !.ok = st.ok]
    /\ UNCHANGED << phase, prog, pre, ev, outcome, pstate, ast, lx, emitted >>

ScClear ==
    /\ \E name \in ScopeNames :
          sc' = [sc EXCEPT !.Scopes = Clear(@, sc.Scope, name), !.op = "Clear",
                           !.name = name, !.obj = NilObject, !.ok = TRUE]
    /\ UNCHANGED << phase, prog, pre, ev, outcome, pstate, ast, lx, emitted >>

NextScope ==
    \/ ScPush
    \/ ScLeave
    \/ ScDeclare
    \/ ScStore
    \/ ScClear

SpecScope == Init /\ [][NextScope]_vars

RECURSIVE ChainOf(_, _)
\* the frames from s up to the global scope, nearest first
ChainOf(scopes, s) ==
    IF s = 0 THEN << >> ELSE << s >> \o ChainOf(scopes, scopes[s].Parent)

\* what Lookup has to return: the binding of the nearest frame holding name
NearestBinding(scopes, s, name) ==
    LET holders == SelectSeq(ChainOf(scopes, s), LAMBDA a : Has(scopes[a].Variables, name))
    IN  IF holders = << >> THEN [obj |-> NilObject, ok |-> FALSE]
        ELSE [obj |-> scopes[Head(holders)].Variables[name], ok |-> TRUE]

LookupIsNearest ==
    \A s \in 1..Len(sc.Scopes) : \A name \in ScopeNames :
        Lookup(sc.Scopes, s, name) = NearestBinding(sc.Scopes, s, name)

\* a Declare step changes no frame but the current one
DeclareKeepsOuter ==
    sc'.op = "Declare" =>
        \A a \in 1..Len(sc.Scopes) : a # sc.Scope => sc'.Scopes[a] = sc.Scopes[a]

\* leaving a frame makes every name resolve as it did from the parent
LeaveRestores ==
    sc'.op = "leave" =>
        \A name \in ScopeNames :
            Lookup(sc'.Scopes, sc'.Scope, name)
                = Lookup(sc.Scopes, sc.Scopes[sc.Scope].Parent, name)

\* C5: after any sequence of pushes, Declare, Store and Clear, Lookup from a
\* scope returns the binding of the nearest frame on its parent chain that
\* holds the name, and not-found only when no frame of the chain holds it;
\* declaring a name in an inner frame does not change the outer frames, whose
\* binding is visible again once the inner frame is left.
C5_LookupNearest ==
    /\ [](LookupIsNearest)
    /\ [][DeclareKeepsOuter /\ LeaveRestores]_vars

\* x is shadowed: the inner frame and an outer frame bind it differently
C5_Witness ==
    /\ Len(sc.Scopes) = 3 /\ sc.Scope = 3
    /\ Has(sc.Scopes[1].Variables, "x") /\ sc.Scopes[1].Variables["x"] = TrueObject
    /\ ~Has(sc.Scopes[2].Variables, "x")
    /\ Has(sc.Scopes[3].Variables, "x") /\ sc.Scopes[3].Variables["x"] = FalseObject
    /\ Lookup(sc.Scopes, 3, "x").obj = FalseObject
    /\ Lookup(sc.Scopes, 2, "x").obj = TrueObject

\* the frames of the chain of the current scope that hold name, nearest first
Holders(name) ==
    SelectSeq(ChainOf(sc.Scopes, sc.Scope), LAMBDA a : Has(sc.Scopes[a].Variables, name))

\* C21: Store(name, v) overwrites the binding in exactly one frame, the
\* nearest frame on the parent chain that holds name, and reports success;
\* when no frame of the chain holds name it reports failure and leaves every
\* frame as it was.
C21_StoreNearest ==
    [][sc'.op = "Store" =>
         IF Holders(sc'.name) = << >>
         THEN ~sc'.ok /\ sc'.Scopes = sc.Scopes
         ELSE /\ sc'.ok
              /\ Len(sc'.Scopes) = Len(sc.Scopes)
              /\ \A a \in 1..Len(sc.Scopes) :
                    sc'.Scopes[a] =
                        IF a = Head(Holders(sc'.name))
                        THEN [sc.Scopes[a] EXCEPT !.Variables[sc'.name] = sc'.obj]
                        ELSE sc.Scopes[a]]_vars

\* x stored from a frame that does not hold it: the parent's binding is
\* overwritten, the one of the global scope is not
C21_Witness ==
    /\ sc.op = "Store" /\ sc.name = "x" /\ sc.obj = FalseObject /\ sc.ok
    /\ Len(sc.Scopes) = 3 /\ sc.Scope = 3
    /\ ~Has(sc.Scopes[3].Variables, "x")
    /\ Has(sc.Scopes[2].Variables, "x") /\ sc.Scopes[2].Variables["x"] = FalseObject
    /\ Has(sc.Scopes[1].Variables, "x") /\ sc.Scopes[1].Variables["x"] = TrueObject

-----------------------------------------------------------------------------
(* The parser: pkg/parser. The lexer is the sequence of tokens it delivers,  *)
(* followed by EOF for ever. Every parse function takes the parser and       *)
(* returns the parser it leaves behind with the node it returns.             *)

EOF == "EOF"
Token(type, literal) == [Type |-> type, Literal |-> literal, Num |-> 0]
\* the keywords and operators: the literal is the type
Sym(type) == Token(type, type)
Ident(name) == Token("Identifier", name)
\* a Number token; Num is the value its digits denote
NumberToken(n) == [Type |-> "[0-9]", Literal |-> ToString(n), Num |-> n]
\* what Next returns for a character that starts no token
ZeroToken == Token("", "")

MINIMUM == 0
LOG == 1
ADD == 2
MUL == 3
DOT == 4
PARENT == 5
Index == 6

\* a table that gives every binary operator the level of +
getPrecedence_Flat(token) ==
    IF token.Type \in {"+", "-", "*", "/", "<", "<=", ">", ">=", "==", "!=", ".", "..", "["}
    THEN ADD ELSE MINIMUM

getPrecedence(token) ==
    CASE token.Type \in {"+", "-"} -> ADD
      [] token.Type \in {"*", "/"} -> MUL
      [] token.Type \in {"<", "<=", ">", ">=", "==", "!="} -> LOG
      [] token.Type = "." -> DOT
      [] token.Type = ".." -> PARENT
      [] token.Type = "[" -> Index
      [] OTHER -> MINIMUM

PrefixTypes == {"[0-9]", "-", "!", "Identifier", "true", "false", "(", "String", "[", "new"}
BinaryTypes == {"[", "+", "*", "-", "/", ">", ">=", "<", "<=", "==", "!=", ".", ".."}

PR(p, node) == [p |-> p, node |-> node]
PL(p, nodes) == [p |-> p, nodes |-> nodes]
Running(p) == p.status = "ok"
\* a Go panic, and a loop that never ends: the parse is abandoned
ParserPanic(p) == [p EXCEPT !.status = "panic"]
ParserDiverge(p) == [p EXCEPT !.status = "diverge"]

\* lex.Next(): the next token, EOF once the input is used up
advance(p) ==
    IF ~Running(p) THEN p
    ELSE [p EXCEPT !.CurrentToken = p.NextToken,
                   !.NextToken = IF p.pos <= Len(p.toks) THEN p.toks[p.pos] ELSE Sym(EOF),
                   !.pos = IF p.pos <= Len(p.toks) THEN p.pos + 1 ELSE p.pos]

Report(p, token, message, params) ==
    IF ~Running(p) THEN p
    ELSE [p EXCEPT !.Errors = Append(@, [Message |-> << message >> \o params, Token |-> token])]

HasAny(p) == Len(p.Errors) > 0

\* New(src) and init(): the first two tokens are read
New(toks) ==
    advance(advance([toks |-> toks, pos |-> 1, CurrentToken |-> ZeroToken,
                     NextToken |-> ZeroToken, Errors |-> << >>, status |-> "ok"]))

advanceExpect(p, expected) ==
    advance(IF p.CurrentToken.Type # expected
            THEN Report(p, p.CurrentToken, "Expected %s got %s instead",
                        << expected, p.CurrentToken.Literal >>)
            ELSE p)

expectNext(p, expected) ==
    advance(IF p.NextToken.Type # expected
            THEN Report(p, p.CurrentToken, "Expected %s got %s instead",
                        << expected, p.CurrentToken.Literal >>)
            ELSE p)

\* strconv.ParseInt fails on a value that does not fit the Int
parseNumberLiteral(p) ==
    IF p.CurrentToken.Num > MaxInt
    THEN PR(Report(p, p.CurrentToken, "Could not parse integer value %s",
                   << p.CurrentToken.Literal >>),
            NumberLiteral(0))
    ELSE PR(p, NumberLiteral(p.CurrentToken.Num))

parseBoolean(p) == PR(p, BooleanLiteral(p.CurrentToken.Type = "true"))

parseStringLiteral(p) == PR(p, StringLiteral(<< p.CurrentToken.Literal >>))

RECURSIVE parseInternal(_, _), internalLoop(_, _, _), parseStatement(_),
          parseBlockStatement(_), blockLoop(_, _), parseCallArguments(_),
          callArgumentsLoop(_, _), parseIdentifier(_), parseArrayLiteral(_),
          arrayLoop(_, _), parseFunctionStatement(_), parametersLoop(_, _),
          structLoop(_, _, _), Method(_, _, _)

\* parseInternal(MINIMUM)
parseExpression(p) == Method(p, "parseInternal", MINIMUM)

parsePrefixExpression(p) ==
    LET right == parseExpression(advance(p))
    IN  PR(right.p, PrefixExpression(p.CurrentToken.Type, right.node))

\* the loop over ", expression" of parseCallArguments
callArgumentsLoop(p, args) ==
    IF Running(p) /\ p.NextToken.Type = ","
    THEN LET arg == parseExpression(advance(advance(p)))
         IN  callArgumentsLoop(arg.p, Append(args, arg.node))
    ELSE PL(p, args)

parseCallArguments(p) ==
    IF p.NextToken.Type = ")" THEN PL(advance(p), << >>)
    ELSE LET arg == parseExpression(advance(p))
             rest == callArgumentsLoop(arg.p, << arg.node >>)
             p1 == advance(rest.p)
         IN  PL(IF p1.CurrentToken.Type # ")"
                THEN Report(p1, p1.CurrentToken, "Expected ')' got %s",
                            << p1.CurrentToken.Literal >>)
                ELSE p1,
                rest.nodes)

parseIdentifier(p) ==
    IF p.NextToken.Type = "("
    THEN LET args == Method(advance(p), "parseCallArguments", MINIMUM)
         IN  PR(args.p, CallExpression(p.CurrentToken.Literal, args.nodes))
    ELSE IF p.NextToken.Type = "="
    THEN LET value == parseExpression(advance(expectNext(p, "=")))
         IN  PR(value.p, AssignExpression(p.CurrentToken.Literal, value.node))
    ELSE PR(p, IdentifierExpression(p.CurrentToken.Literal))

parseParenthesisedExpression(p) ==
    LET expression == parseExpression(advanceExpect(p, "("))
    IN  PR(expectNext(expression.p, ")"), ParenthesisedExpression(expression.node))

parseBinaryExpression(p, left) ==
    LET right == Method(advance(p), "parseInternal", getPrecedence(p.CurrentToken))
    IN  PR(right.p, BinaryExpression(p.CurrentToken.Type, left, right.node))

parseArrayAccess(p, left) ==
    LET index == parseExpression(advance(p))
    IN  PR(expectNext(index.p, "]"), IndexAccess(left, index.node))

\* the loop of parseArrayLiteral. Once the current token is EOF an iteration
\* ends where it began (advance stays on EOF, EOF is not "]"): the loop
\* never ends.
arrayLoop(p, elements) ==
    IF ~Running(p) \/ p.CurrentToken.Type = "]" THEN PR(p, ArrayLiteral(elements))
    ELSE IF p.CurrentToken.Type = EOF THEN PR(ParserDiverge(p), NilNode)
    ELSE LET element == parseExpression(p)
             p1 == advance(element.p)
         IN  IF p1.CurrentToken.Type = "]"
             THEN PR(p1, ArrayLiteral(Append(elements, element.node)))
             ELSE arrayLoop(advanceExpect(p1, ","), Append(elements, element.node))

parseArrayLiteral(p) ==
    LET p1 == advanceExpect(p, "[")
    IN  IF p1.CurrentToken.Type = "]" THEN PR(p1, ArrayLiteral(<< >>))
        ELSE arrayLoop(p1, << >>)

parseNewCall(p) ==
    LET p1 == expectNext(p, "Identifier")
        args == Method(advance(p1), "parseCallArguments", MINIMUM)
    IN  PR(args.p, NewCallExpr(p1.CurrentToken.Literal, args.nodes))

\* p.prefixFuncs[type]()
prefixFunc(p) ==
    CASE p.CurrentToken.Type = "[0-9]" -> parseNumberLiteral(p)
      [] p.CurrentToken.Type \in {"-", "!"} -> parsePrefixExpression(p)
      [] p.CurrentToken.Type = "Identifier" -> parseIdentifier(p)
      [] p.CurrentToken.Type \in {"true", "false"} -> parseBoolean(p)
      [] p.CurrentToken.Type = "(" -> parseParenthesisedExpression(p)
      [] p.CurrentToken.Type = "String" -> parseStringLiteral(p)
      [] p.CurrentToken.Type = "[" -> parseArrayLiteral(p)
      [] p.CurrentToken.Type = "new" -> parseNewCall(p)

\* p.binaryFuncs[type](left)
binaryFunc(p, left) ==
    IF p.CurrentToken.Type = "[" THEN parseArrayAccess(p, left)
    ELSE parseBinaryExpression(p, left)

\* the loop of parseInternal over the operators that bind stronger
internalLoop(p, currentPrecedence, left) ==
    IF Running(p) /\ currentPrecedence < getPrecedence(p.NextToken)
    THEN LET has == p.NextToken.Type \in BinaryTypes
             p1 == advance(p)
         IN  IF ~has THEN PR(p1, left)
             ELSE LET b == binaryFunc(p1, left)
                  IN  internalLoop(b.p, currentPrecedence, b.node)
    ELSE PR(p, left)

parseInternal(p, currentPrecedence) ==
    IF ~Running(p) THEN PR(p, NilNode)
    ELSE IF p.CurrentToken.Type \notin PrefixTypes
    THEN PR(Report(p, p.CurrentToken, "No parsing function found for %s",
                   << p.CurrentToken.Literal >>),
            NilNode)
    ELSE LET left == prefixFunc(p)
         IN  internalLoop(left.p, currentPrecedence, left.node)

parseDeclaration(p) ==
    LET p1 == advanceExpect(p, "var")
        p2 == advanceExpect(advanceExpect(p1, "Identifier"), "=")
        expression == parseExpression(p2)
    IN  PR(expression.p, DeclarationStatement(p1.CurrentToken.Literal, expression.node))

parseReturnStatement(p) ==
    LET expression == parseExpression(advanceExpect(p, "return"))
    IN  PR(expression.p, ReturnStatement(expression.node))

\* the loop of parseBlockStatement up to the closing brace
blockLoop(p, statements) ==
    IF ~Running(p) \/ p.CurrentToken.Type = "}" THEN PR(p, BlockStatement(statements))
    ELSE IF p.CurrentToken.Type = EOF
    THEN PR(Report(p, p.CurrentToken, "Unexpected EOF", << >>), BlockStatement(statements))
    ELSE LET curStatement == Method(p, "parseStatement", MINIMUM)
         IN  IF ~Running(curStatement.p) THEN curStatement
             ELSE IF curStatement.node.kind = "nil"
             THEN PR(ParserPanic(curStatement.p), NilNode)   \* "current statement is nil"
             ELSE blockLoop(advance(curStatement.p), Append(statements, curStatement.node))

parseBlockStatement(p) == blockLoop(advanceExpect(p, "{"), << >>)

parseIfStatement(p) ==
    LET test == parseExpression(advanceExpect(p, "if"))
        then == Method(expectNext(test.p, "{"), "parseBlockStatement", MINIMUM)
        p1 == advanceExpect(then.p, "}")
    IN  IF p1.CurrentToken.Type = "else"
        THEN LET else == Method(advanceExpect(p1, "else"), "parseBlockStatement", MINIMUM)
             IN  PR(else.p, IfStatement(test.node, then.node, else.node))
        ELSE PR(p1, IfStatement(test.node, then.node, EmptyBlock))

\* the loop of parseFunctionStatement over the parameters; a parameter that
\* is no plain identifier is kept as a nil *IdentifierExpression
parametersLoop(p, parameters) ==
    IF ~Running(p) \/ p.CurrentToken.Type \in {EOF, ")"} THEN PL(p, parameters)
    ELSE LET parameterName == Method(p, "parseIdentifier", MINIMUM)
             parameterExpression ==
                 IF parameterName.node.kind = "IdentifierExpression"
                 THEN parameterName.node ELSE NilNode
             p1 == advance(parameterName.p)
         IN  parametersLoop(IF p1.CurrentToken.Type = "," THEN advance(p1) ELSE p1,
                            Append(parameters, parameterExpression))

parseFunctionStatement(p) ==
    LET p1 == advanceExpect(p, "func")
        p2 == advanceExpect(advanceExpect(p1, "Identifier"), "(")
        parameters == IF p2.CurrentToken.Type # ")" THEN parametersLoop(p2, << >>)
                      ELSE PL(p2, << >>)
        block == Method(advanceExpect(parameters.p, ")"), "parseBlockStatement", MINIMUM)
    IN  PR(block.p, FunctionStatement(p1.CurrentToken.Literal, parameters.nodes, block.node))

parseForStatement(p) ==
    LET p1 == expectNext(p, "Identifier")
        hasValue == p1.NextToken.Type = ","
        p2 == IF hasValue THEN expectNext(advance(p1), "Identifier") ELSE p1
        value == IF hasValue THEN p2.CurrentToken.Literal ELSE "__empty__"
        range == parseExpression(advance(expectNext(p2, "in")))
        body == Method(expectNext(range.p, "{"), "parseBlockStatement", MINIMUM)
    IN  PR(body.p, ForStatement(IdentifierExpression(p1.CurrentToken.Literal),
                                IdentifierExpression(value), range.node, body.node))

\* the loop of parseStructDeclaration over the methods (what
\* parseFunctionStatement returns always is a *FunctionStatement). Once the
\* current token is EOF an iteration ends where it began: the loop never ends.
structLoop(p, name, functions) ==
    IF ~Running(p) THEN PR(p, NilNode)
    ELSE IF p.CurrentToken.Type = "}" THEN PR(p, StructDeclarationStatement(name, functions))
    ELSE IF p.CurrentToken.Type = EOF THEN PR(ParserDiverge(p), NilNode)
    ELSE LET funcStatement == Method(p, "parseFunctionStatement", MINIMUM)
         IN  structLoop(advanceExpect(funcStatement.p, "}"), name,
                        Append(functions, funcStatement.node))

parseStructDeclaration(p) ==
    LET p1 == advance(p)
    IN  structLoop(advanceExpect(advance(p1), "{"), p1.CurrentToken.Literal, << >>)

parseStatement(p) ==
    CASE p.CurrentToken.Type = "var" -> parseDeclaration(p)
      [] p.CurrentToken.Type = "return" -> parseReturnStatement(p)
      [] p.CurrentToken.Type = "{" -> parseBlockStatement(p)
      [] p.CurrentToken.Type = "if" -> parseIfStatement(p)
      [] p.CurrentToken.Type = "func" -> parseFunctionStatement(p)
      [] p.CurrentToken.Type = "for" -> parseForStatement(p)
      [] p.CurrentToken.Type = "struct" -> parseStructDeclaration(p)
      [] OTHER -> parseExpression(p)

\* p.<name>(): a call of one parse method by another. currentPrecedence is
\* the argument of parseInternal, the other methods take none.
Method(p, name, currentPrecedence) ==
    CASE name = "parseInternal" -> parseInternal(p, currentPrecedence)
      [] name = "parseStatement" -> parseStatement(p)
      [] name = "parseBlockStatement" -> parseBlockStatement(p)
      [] name = "parseCallArguments" -> parseCallArguments(p)
      [] name = "parseIdentifier" -> parseIdentifier(p)
      [] name = "parseFunctionStatement" -> parseFunctionStatement(p)

RECURSIVE parseLoop(_, _)
\* the loop of Parse up to EOF
parseLoop(p, statements) ==
    IF ~Running(p) THEN PR(p, NilNode)
    ELSE IF p.CurrentToken.Type = EOF THEN PR(p, RootNode(statements))
    ELSE LET statement == Method(p, "parseStatement", MINIMUM)
         IN  parseLoop(advance(statement.p),
                       IF statement.node.kind # "nil"
                       THEN Append(statements, statement.node) ELSE statements)

Parse(p) == parseLoop(p, << >>)

-----------------------------------------------------------------------------
(* The parser run on an input: an opening context followed by any tokens    *)

\* ""  |  func f() {  |  {  |  if f {  |  func f(  |  [  |  struct f {
ParseContexts == {"top", "func", "block", "if", "params", "array", "struct"}

ContextTokens(ctx) ==
    CASE ctx = "top" -> << >>
      [] ctx = "func" -> << Sym("func"), Ident("f"), Sym("("), Sym(")"), Sym("{") >>
      [] ctx = "block" -> << Sym("{") >>
      [] ctx = "if" -> << Sym("if"), Ident("f"), Sym("{") >>
      [] ctx = "params" -> << Sym("func"), Ident("f"), Sym("(") >>
      [] ctx = "array" -> << Sym("[") >>
      [] ctx = "struct" -> << Sym("struct"), Ident("f"), Sym("{") >>

Alphabet ==
    { Sym(")"), Sym("}"), Sym("{"), Sym("("), Sym("+"), Sym("["), Sym("var"), Sym("="),
      Ident("f"), NumberToken(1) }

ParseInputs ==
    { [family |-> "parse", ctx |-> c, toks |-> t] :
        c \in ParseContexts, t \in SeqsUpTo(Alphabet, MaxTokens) }

\* parser.New(src).Parse()
RunParse ==
    /\ phase = "start"
    /\ \E d \in ParseInputs :
          /\ prog' = d
          /\ LET r == Parse(New(ContextTokens(d.ctx) \o d.toks))
             IN  pstate' = r.p /\ outcome' = r.node
    /\ phase' = "parsed"
    /\ UNCHANGED << pre, ev, sc, ast, lx, emitted >>

\* "ifthen": the source  if f { 1 } S  (with  else { 2 }  before S when
\* d.else), at top level or, for ctx "block", between braces; toks are the
\* tokens of the statement S
IfThenStatements ==
    { << Sym("var"), Ident("f"), Sym("="), NumberToken(1) >>,
      << Ident("f"), Sym("="), NumberToken(1) >>,
      << Sym("return"), NumberToken(1) >>,
      << Ident("f"), Sym("+"), NumberToken(1) >>,
      << Ident("f"), Sym("("), Sym(")") >>,
      << Sym("{"), Sym("}") >>,
      << Ident("f") >>,
      << NumberToken(1) >> }

IfThenInputs ==
    { [family |-> "ifthen", ctx |-> c, else |-> e, toks |-> t] :
        c \in {"top", "block"}, e \in BOOLEAN, t \in IfThenStatements }

IfThenSource(d) ==
    LET if == << Sym("if"), Ident("f"), Sym("{"), NumberToken(1), Sym("}") >>
                \o (IF d.else THEN << Sym("else"), Sym("{"), NumberToken(2), Sym("}") >>
                    ELSE << >>)
    IN  IF d.ctx = "top" THEN if \o d.toks
        ELSE << Sym("{") >> \o if \o d.toks \o << Sym("}") >>

\* parser.New(src).Parse() on an if statement followed by a statement
RunIfThen ==
    /\ phase = "start"
    /\ \E d \in IfThenInputs :
          /\ prog' = d
          /\ LET r == Parse(New(IfThenSource(d)))
             IN  pstate' = r.p /\ outcome' = r.node
    /\ phase' = "parsed"
    /\ UNCHANGED << pre, ev, sc, ast, lx, emitted >>

NextParse ==
    \/ RunParse
    \/ RunIfThen

SpecParse == Init /\ [][NextParse]_vars

\* the input ends inside the body of a function
CutOffBody == prog.ctx = "func" /\ prog.toks = << >>

\* inside a block stands a token that can start no statement
BadStatementStart ==
    /\ prog.ctx \in {"func", "block", "if"}
    /\ prog.toks # << >>
    /\ Head(prog.toks).Type \in {")", "+", "="}

\* C10: for any input, Parse returns a non-null root node and never aborts;
\* a syntax error (a function body cut off by the end of the input, a token
\* that cannot start a statement inside a block) is recorded in the error
\* bag, so that HasAny is true afterwards.
C10_ParseNeverAborts ==
    phase = "parsed" =>
        /\ pstate.status = "ok"
        /\ outcome.kind = "RootNode"
        /\ (CutOffBody \/ BadStatementStart) => HasAny(pstate)

\* C24: Parse terminates on every finite input, including input that ends
\* inside a block, a parameter list, an array literal or a struct body: once
\* the lexer has started returning EOF, every parsing loop exits after
\* recording finitely many errors and Parse returns.
C24_ParseTerminates ==
    phase = "parsed" => pstate.status # "diverge"

\* the statements that parsing S alone yields
ParsedAlone == Parse(New(prog.toks)).node.Statements

\* the if statement of an "ifthen" source
IfThenNode ==
    IfStatement(Id("f"), BlockStatement(<< Num(1) >>),
                IF prog.else THEN BlockStatement(<< Num(2) >>) ELSE EmptyBlock)

\* the if statement followed by exactly the statement S
IfThenFollowed ==
    /\ pstate.status = "ok"
    /\ ~HasAny(pstate)
    /\ outcome = IF prog.ctx = "top" THEN RootNode(<< IfThenNode >> \o ParsedAlone)
                 ELSE RootNode(<< BlockStatement(<< IfThenNode >> \o ParsedAlone) >>)

\* C25: every statement parser hands the cursor back on the last token of
\* the statement it parsed, so no token is skipped between statements: for
\* any statement S, parsing an if statement without else followed by S
\* ( if c { ... } S ), at top level or inside a block, yields the if statement
\* followed by exactly the statement that parsing S alone yields.
C25_NoTokenSkipped ==
    (phase = "parsed" /\ prog.family = "ifthen" /\ ~prog.else) => IfThenFollowed

-----------------------------------------------------------------------------
(* Binary operators on evaluated operands *)

\* the integer comparison that op denotes
Compare(op, a, b) ==
    CASE op = "==" -> a = b
      [] op = "!=" -> a # b
      [] op = "<" -> a < b
      [] op = "<=" -> a <= b
      [] op = ">" -> a > b
      [] op = ">=" -> a >= b

BothInts == prog.l.kind = IntType /\ prog.r.kind = IntType

\* C11: for all Int operands a and b, each of + - * / yields an Int (never an
\* Error, never an abort of the evaluator), and each of == != < <= > >= yields
\* the TRUE or FALSE singleton that agrees with the integer comparison.
C11_IntOperators ==
    (Done("binop") /\ BothInts) =>
        /\ prog.op \in ArithmeticOps => (ev.status = "ok" /\ outcome.type = IntType)
        /\ prog.op \in ComparisonOps =>
              /\ ev.status = "ok"
              /\ outcome = boolValue(Compare(prog.op, prog.l.int, prog.r.int))

\* the result of the same operands under !=, evaluated by a new evaluator
UnderNeq == Eval(NewEvaluator, BinopRoot([prog EXCEPT !.op = "!="]))

\* C12: for any two values a and b of equal type, the result of a == b is
\* the negation of the result of a != b.
C12_EqNegatesNeq ==
    (Done("binop") /\ prog.op = "==" /\ prog.l.kind = prog.r.kind) =>
        /\ ev.status = "ok"
        /\ Ok(UnderNeq)
        /\ outcome.type = BoolType
        /\ UnderNeq.res.type = BoolType
        /\ outcome.bval = ~UnderNeq.res.bval

MixedKinds ==
    /\ prog.l.kind # prog.r.kind
    /\ prog.l.kind # StrType
    /\ prog.r.kind # StrType

\* C13: for two operands of different kinds, neither of them a Str, == yields
\* FALSE, != yields TRUE, and every other operator that takes two operands
\* yields the Error "Cannot apply operator <OP> on given types <L> and <R>"
\* naming the operator and the two operand types from left to right.
C13_MixedKinds ==
    (Done("binop") /\ MixedKinds) =>
        /\ ev.status = "ok"
        /\ prog.op = "==" => outcome = FalseObject
        /\ prog.op = "!=" => outcome = TrueObject
        /\ prog.op \notin {"==", "!="} =>
              outcome = CreateError("Cannot apply operator %s on given types %v and %v",
                                    << prog.op, prog.l.kind, prog.r.kind >>)

C13_Witness ==
    /\ Done("binop")
    /\ prog.op = "<"
    /\ prog.l.kind = ArrayType
    /\ prog.r.kind = IntType
    /\ outcome.type = ErrorType
    /\ outcome.Message[3] = ArrayType

-----------------------------------------------------------------------------
(* A source that is parsed and, when the parser reports no error, evaluated *)

\* p := parser.New(source); rootNode := p.Parse(); unless p.Errors.HasAny():
\* evaluator := NewEvaluator(); evaluator.Eval(rootNode)
RunSource(d, toks) ==
    /\ phase = "start"
    /\ phase' = "ran"
    /\ prog' = d
    /\ pre' = ev
    /\ LET r == Parse(New(toks))
           v == Eval(ev, r.node)
       IN  /\ pstate' = r.p
           /\ ast' = r.node
           /\ IF Running(r.p) /\ ~HasAny(r.p)
              THEN ev' = v.ev /\ outcome' = v.res
              ELSE ev' = ev /\ outcome' = NopInstance
    /\ UNCHANGED << sc, lx, emitted >>

Ran(family) == phase = "ran" /\ prog.family = family

\* "prec": the source  a op1 b op2 c  on three numbers; an index operator is
\* written with its closing bracket,  a [ b ]
OperandNumbers == {1, 2, 3}

Applied(op, operand) ==
    IF op = "[" THEN << Sym("["), NumberToken(operand), Sym("]") >>
    ELSE << Sym(op), NumberToken(operand) >>

PrecSource(d) == << NumberToken(d.a) >> \o Applied(d.op1, d.b) \o Applied(d.op2, d.c)

PrecPrograms ==
    { [family |-> "prec", op1 |-> o1, op2 |-> o2, a |-> a, b |-> b, c |-> c] :
        o1 \in BinaryTypes, o2 \in BinaryTypes,
        a \in OperandNumbers, b \in OperandNumbers, c \in OperandNumbers }

RunPrec == \E d \in PrecPrograms : RunSource(d, PrecSource(d))

\* "prefix": the source  - a + b  on two numbers, or  ! a == b  on two
\* boolean literals
PrefixPrograms ==
    { [family |-> "prefix", op |-> "-", a |-> a, b |-> b, x |-> FALSE, y |-> FALSE] :
        a \in 0..MaxInt, b \in 0..MaxInt }
    \cup { [family |-> "prefix", op |-> "!", a |-> 0, b |-> 0, x |-> x, y |-> y] :
              x \in BOOLEAN, y \in BOOLEAN }

BoolToken(b) == IF b THEN Sym("true") ELSE Sym("false")

PrefixSource(d) ==
    IF d.op = "-" THEN << Sym("-"), NumberToken(d.a), Sym("+"), NumberToken(d.b) >>
    ELSE << Sym("!"), BoolToken(d.x), Sym("=="), BoolToken(d.y) >>

RunPrefix == \E d \in PrefixPrograms : RunSource(d, PrefixSource(d))

NextSource ==
    \/ RunPrec
    \/ RunPrefix

SpecSource == Init /\ [][NextSource]_vars

\* the levels of the precedence table, low to high
Level(op) ==
    CASE op \in ComparisonOps -> 1
      [] op \in {"+", "-"} -> 2
      [] op \in {"*", "/"} -> 3
      [] op = "." -> 4
      [] op = ".." -> 5
      [] op = "[" -> 6

\* the node of  left op right
Applies(op, left, right) ==
    IF op = "[" THEN IndexAccess(left, right) ELSE BinaryExpression(op, left, right)

\* a op1 b op2 c  grouped by the table: the higher operator first, equal
\* levels from left to right
Grouped(d) ==
    IF Level(d.op2) > Level(d.op1)
    THEN Applies(d.op1, Num(d.a), Applies(d.op2, Num(d.b), Num(d.c)))
    ELSE Applies(d.op2, Applies(d.op1, Num(d.a), Num(d.b)), Num(d.c))

\* int64 arithmetic at the model's width
Arith(op, x, y) ==
    CASE op = "+" -> Wrap(x + y)
      [] op = "-" -> Wrap(x - y)
      [] op = "*" -> Wrap(x * y)
      [] op = "/" -> Wrap(Quot(x, y))

GroupedValue(d) ==
    IF Level(d.op2) > Level(d.op1)
    THEN Arith(d.op1, d.a, Arith(d.op2, d.b, d.c))
    ELSE Arith(d.op2, Arith(d.op1, d.a, d.b), d.c)

-----------------------------------------------------------------------------
(* Index access *)

\* C15: a[i], when a evaluates to an Array and i to an Int, is the element at
\* position i if 0 <= i < length and an Error otherwise; when a is not an
\* Array or i is not an Int the result is an Error; no evaluation reads
\* outside the array's bounds or aborts.
C15_IndexAccess ==
    Done("index") =>
        /\ ev.status = "ok"
        /\ IF prog.target.kind = ArrayType /\ prog.index.kind = IntType
           THEN IF 0 <= prog.index.int /\ prog.index.int < prog.target.len
                THEN IsIntOf(ev, outcome, prog.index.int + 1)
                ELSE outcome.type = ErrorType
           ELSE outcome.type = ErrorType

-----------------------------------------------------------------------------
(* Struct declarations *)

\* two methods of the declaration have the same name
Overloads(names) ==
    \E i, j \in 1..Len(names) : i # j /\ names[i] = names[j]

\* the types map as it was before the declaration of the program was evaluated
TypesUnchanged ==
    IF prog.prior
    THEN DOMAIN ev.Types = {"T"} /\ DOMAIN ev.Types["T"].MethodMap = {"z"}
    ELSE ev.Types = EmptyMap

\* the type T holds the declared methods and no other
RegisteredAsDeclared ==
    /\ Has(ev.Types, "T")
    /\ ev.Types["T"].Name = "T"
    /\ DOMAIN ev.Types["T"].MethodMap = { prog.names[i] : i \in 1..Len(prog.names) }
    /\ \A i \in 1..Len(prog.names) :
          LET m == ev.Types["T"].MethodMap[prog.names[i]]
          IN  m.Name = prog.names[i] /\ m.Body = BlockStatement(<< Num(i) >>)

\* C16: evaluating a struct declaration in which two methods have the same
\* name yields an Error and leaves the types map unchanged; a declaration
\* whose method names are all distinct yields Nop and registers the type with
\* exactly the declared methods.
C16_StructDeclaration ==
    Done("struct") =>
        /\ ev.status = "ok"
        /\ IF Overloads(prog.names)
           THEN outcome.type = ErrorType /\ TypesUnchanged
           ELSE outcome = NopInstance /\ RegisteredAsDeclared

C16_Witness ==
    /\ Done("struct")
    /\ prog.names = << "a", "b", "a" >>
    /\ ~prog.prior
    /\ outcome.type = ErrorType
    /\ ev.Types = EmptyMap

-----------------------------------------------------------------------------
(* Instance creation *)

\* the outcome is the one Instance of T that the evaluation created
FreshInstance ==
    /\ outcome.type = ObjType
    /\ Len(ev.insts) = 1
    /\ outcome.iaddr = 1
    /\ ev.insts[1].Struct.Name = "T"

\* C17: new T(args) yields an Error when no type T is registered; when T has
\* no init it yields an Error if an argument is supplied and otherwise a new
\* Instance of T with an empty field map; when T has init it runs init with
\* this bound to the new Instance and yields that Instance, or the Error that
\* init produced.
C17_NewCall ==
    Done("new") =>
        /\ ev.status = "ok"
        /\ prog.type = "none" => outcome.type = ErrorType
        /\ (prog.type = "plain" /\ prog.nargs > 0) => outcome.type = ErrorType
        /\ (prog.type = "plain" /\ prog.nargs = 0) =>
              (FreshInstance /\ ev.insts[1].Fields = EmptyMap)
        /\ (prog.type = "init" /\ prog.body = "error") => outcome.type = ErrorType
        /\ (prog.type = "init" /\ prog.body # "error") => FreshInstance
        /\ (prog.type = "init" /\ prog.body = "set") => Has(ev.insts[1].Fields, "x")

-----------------------------------------------------------------------------
(* Method calls *)

\* C18: a method call obj.m(args) that supplies fewer arguments than m
\* declares parameters yields an Error about the parameter count without
\* evaluating m's body or changing obj; with at least as many arguments as
\* parameters the body runs with this bound to obj and each declared
\* parameter bound to the argument at the same position.
C18_MethodCall ==
    Done("method") =>
        /\ ev.status = "ok"
        /\ IF prog.nargs < prog.nparams
           THEN /\ outcome = CreateError(
                       "Method '%s' on type '%s' expects at least %d parameters, %d were given",
                       << "m", "T", ToString(prog.nparams), ToString(prog.nargs) >>)
                /\ ev.out = << >>
                /\ ev.insts[GlobalOf(ev, "o").iaddr].Fields = EmptyMap
           ELSE /\ ev.out = << Mark("m") >>
                /\ Has(ev.insts[GlobalOf(ev, "o").iaddr].Fields, "x")
                /\ outcome.type = ArrayType
                /\ outcome.Length = prog.nparams
                /\ \A i \in 1..prog.nparams : IsIntOf(ev, outcome.Values[i], i)

C18_Witness ==
    /\ Done("method")
    /\ prog.nparams = 2
    /\ prog.nargs = 1
    /\ outcome.type = ErrorType
    /\ ev.out = << >>

-----------------------------------------------------------------------------
(* Fields of instances *)

\* a and c name one instance, b another
SameInstance(o1, o2) == (o1 = "b") = (o2 = "b")

\* the writes of the program to the field of the instance that obj names
WritesTo(obj, field) ==
    { i \in 1..Len(prog.writes) :
        SameInstance(prog.writes[i].obj, obj) /\ prog.writes[i].field = field }

\* the last of the writes in W
Latest(W) == CHOOSE i \in W : \A j \in W : j <= i

\* what reading the field of obj yields: the number last written, the 0 that
\* init wrote to f, or nothing
ReadsBack(value, obj, field) ==
    IF WritesTo(obj, field) # {} THEN IsIntOf(ev, value, Latest(WritesTo(obj, field)))
    ELSE IF field = "f" THEN IsIntOf(ev, value, 0)
    ELSE IsNil(value)

\* C19: instances have identity and a dynamic field bag: a field written with
\* obj.f = v, or with this.f = v inside init or a method (a field that did
\* not exist before included), is read back as v by obj.f and by this.f
\* through every variable bound to that instance until it is overwritten, and
\* writing a field of one instance never changes the fields of another
\* instance of the same struct.
C19_FieldsOfInstances ==
    Done("field") =>
        /\ ev.status = "ok"
        /\ outcome.type = ArrayType
        /\ outcome.Length = 9
        /\ \A k \in 1..3 :
              /\ ReadsBack(outcome.Values[3 * k - 2], FieldObjects[k], "f")
              /\ ReadsBack(outcome.Values[3 * k - 1], FieldObjects[k], "g")
              /\ ReadsBack(outcome.Values[3 * k], FieldObjects[k], "f")

\* a.g = 1, then b.setg(2): c reads the 1 and a.f, b.f are still 0
C19_Witness ==
    /\ Done("field")
    /\ prog.writes = << [obj |-> "a", via |-> "dot", field |-> "g"],
                        [obj |-> "b", via |-> "method", field |-> "g"] >>
    /\ IsIntOf(ev, outcome.Values[8], 1)
    /\ IsIntOf(ev, outcome.Values[5], 2)
    /\ IsIntOf(ev, outcome.Values[1], 0)

-----------------------------------------------------------------------------
(* The lexer: pkg/lexer. The source is a sequence of characters, pos counts *)
(* from 0 as in the code, and the character 0 that marks the end of the     *)
(* input is NUL. A lexer function returns the lexer it leaves behind.       *)

NUL == "NUL"
DigitChars == {"0", "1", "2", "3", "4", "5", "6", "7", "8", "9"}
LetterChars ==
    {"a", "b", "c", "d", "e", "f", "g", "h", "i", "j", "k", "l", "m", "n", "o", "p", "q",
     "r", "s", "t", "u", "v", "w", "x", "y", "z"}

\* NewTokenWithMeta; NewToken leaves line and column 0
LexToken(type, literal, line, column) ==
    [Type |-> type, Literal |-> literal, LineNumber |-> line, ColumnNumber |-> column]

\* the keywords, as they are spelled and as their token type
Keywords ==
    { << << "f", "u", "n", "c" >>, "func" >>, << << "n", "e", "w" >>, "new" >>,
      << << "s", "t", "r", "u", "c", "t" >>, "struct" >>,
      << << "r", "e", "t", "u", "r", "n" >>, "return" >>, << << "v", "a", "r" >>, "var" >>,
      << << "t", "r", "u", "e" >>, "true" >>, << << "f", "a", "l", "s", "e" >>, "false" >>,
      << << "i", "f" >>, "if" >>, << << "e", "l", "s", "e" >>, "else" >>,
      << << "f", "o", "r" >>, "for" >>, << << "i", "n" >>, "in" >> }

\* the token types of two characters, as they are spelled and as their type
TwoCharTypes ==
    { << << ">", "=" >>, ">=" >>, << << ">", ">" >>, ">>" >>, << << "<", "=" >>, "<=" >>,
      << << "<", "<" >>, "<<" >>, << << "=", "=" >>, "==" >>, << << "!", "=" >>, "!=" >>,
      << << "&", "&" >>, "&&" >>, << << "|", "|" >>, "||" >>, << << ".", "." >>, ".." >> }

\* the string that the characters of literal spell, for the types in table
TypeIn(table, literal) == (CHOOSE e \in table : e[1] = literal)[2]

\* src[i], i counting from 0
ByteAt(l, i) == l.src[i + 1]

\* NewLexer(src): src[0] of an empty source is out of range
NewLexer(src) ==
    [src |-> src, pos |-> 0, current |-> IF Len(src) = 0 THEN NUL ELSE src[1],
     inputSize |-> Len(src), line |-> 1, column |-> 1,
     status |-> IF Len(src) = 0 THEN "panic" ELSE "ok"]

\* Lexer.advance
lexAdvance(l) ==
    [l EXCEPT !.pos = @ + 1,
              !.column = @ + 1,
              !.current = IF l.pos + 1 < l.inputSize THEN ByteAt(l, l.pos + 1) ELSE NUL]

\* Lexer.peek
peek(l) == IF l.pos + 1 < l.inputSize THEN ByteAt(l, l.pos + 1) ELSE NUL

\* unicode.IsSpace on the bytes of the sources considered
isWhiteSpace(c) == c \in {" ", "\t", "\n", "\r", "\f"}

identifierCharacter(c) == c = "_" \/ c \in DigitChars \/ c \in LetterChars

RECURSIVE ignoreWhiteSpace(_), readWhile(_, _), readString(_)

ignoreWhiteSpace(l) ==
    IF isWhiteSpace(l.current)
    THEN ignoreWhiteSpace(lexAdvance(
             IF l.current = "\n" THEN [l EXCEPT !.line = @ + 1, !.column = 1] ELSE l))
    ELSE l

\* the loop of readIdentifier and readNumber: advance while the next byte is in class
readWhile(l, class) ==
    IF peek(l) \in class THEN readWhile(lexAdvance(l), class) ELSE l

\* src[from : to], both counting from 0
Slice(l, from, to) == [i \in 1..(to - from) |-> l.src[from + i]]

readIdentifier(l) ==
    LET end == readWhile(l, {"_"} \cup DigitChars \cup LetterChars)
        literal == Slice(l, l.pos, end.pos + 1)
    IN  [l |-> end,
         tok |-> IF \E e \in Keywords : e[1] = literal
                 THEN LexToken(TypeIn(Keywords, literal), literal, 0, 0)
                 ELSE LexToken("Identifier", literal, 0, 0)]

readNumber(l) ==
    LET end == readWhile(l, DigitChars)
    IN  [l |-> end,
         tok |-> LexToken("[0-9]", Slice(l, l.pos, end.pos + 1), end.line, end.column)]

\* the loop of readString: the lexer on the closing quote, or a panic
readString(l) ==
    LET next == lexAdvance(l)
    IN  IF next.current = "\"" THEN next
        ELSE IF next.current \in {"\n", "\r", NUL} THEN [next EXCEPT !.status = "panic"]
        ELSE readString(next)

\* a switch that never looks at the next byte
Operator_Single(l, seconds) ==
    [l |-> l, tok |-> LexToken(l.current, << l.current >>, l.line, l.column)]

\* a token of one character, or of two when the next byte is in seconds
Operator(l, seconds) ==
    IF peek(l) \in seconds
    THEN LET l2 == lexAdvance(l)
             literal == << l.current, l2.current >>
         IN  [l |-> l2, tok |-> LexToken(TypeIn(TwoCharTypes, literal), literal,
                                         l2.line, l2.column)]
    ELSE [l |-> l, tok |-> LexToken(l.current, << l.current >>, l.line, l.column)]

\* the switch of Next on the current character
nextToken(l) ==
    CASE l.current = ">" -> Operator(l, {"=", ">"})
      [] l.current = "<" -> Operator(l, {"=", "<"})
      [] l.current \in {"=", "!"} -> Operator(l, {"="})
      [] l.current = "&" -> Operator(l, {"&"})
      [] l.current = "|" -> Operator(l, {"|"})
      [] l.current = "." -> Operator(l, {"."})
      [] l.current \in {"+", "-", "*", "/", "^", "~", "(", ")", "[", "]", "{", "}", ";", ","} ->
            Operator(l, {})
      [] l.current = NUL -> [l |-> l, tok |-> LexToken("EOF", << "E", "O", "F" >>, l.line, l.column)]
      [] l.current = "\"" ->
            LET end == readString(l)
            IN  [l |-> end,
                 tok |-> LexToken("String", Slice(l, l.pos + 1, end.pos), end.line, end.column)]
      [] l.current \in DigitChars -> readNumber(l)
      [] l.current \in LetterChars \cup {"_"} -> readIdentifier(l)
      [] OTHER -> [l |-> l, tok |-> LexToken("", << >>, 0, 0)]

\* Lexer.Next
LexerNext(l) ==
    LET r == nextToken(ignoreWhiteSpace(l))
    IN  IF r.l.status # "ok" THEN r ELSE [l |-> lexAdvance(r.l), tok |-> r.tok]

(***************************************************************************)
(* The lexer at work: a source is handed to NewLexer and Next is called    *)
(* until it returns the EOF token.  Each returned token is recorded with   *)
(* the position of the lexer before the call (from), the position of the   *)
(* token's first byte (start) and the position after the call (to).        *)
(***************************************************************************)
SourceChars == {">", "<", "=", "!", "&", "|", ".", " ", "a", "1", "\""}

RECURSIVE SourcesOf(_)
SourcesOf(n) ==
    IF n = 0 THEN { << >> }
    ELSE LET shorter == SourcesOf(n - 1)
         IN  shorter \cup { Append(s, c) : s \in { t \in shorter : Len(t) = n - 1 },
                                           c \in SourceChars }

Sources == SourcesOf(MaxChars)

AtEOF == emitted # << >> /\ emitted[Len(emitted)].tok.Type = "EOF"

\* lexer.NewLexer(src)
LexStart ==
    /\ lx.status = "none"
    /\ \E src \in Sources : lx' = NewLexer(src)
    /\ emitted' = << >>
    /\ UNCHANGED << phase, prog, pre, ev, outcome, sc, pstate, ast >>

\* token := lexer.Next(), until the token is EOF
LexNext ==
    /\ lx.status = "ok"
    /\ ~AtEOF
    /\ LET r == LexerNext(lx)
       IN  /\ lx' = r.l
           /\ emitted' = IF r.l.status = "ok"
                         THEN Append(emitted, [tok |-> r.tok, from |-> lx.pos,
                                               start |-> ignoreWhiteSpace(lx).pos,
                                               to |-> r.l.pos])
                         ELSE emitted
    /\ UNCHANGED << phase, prog, pre, ev, outcome, sc, pstate, ast >>

NextLex ==
    \/ LexStart
    \/ LexNext

SpecLex == Init /\ [][NextLex]_vars

\* the characters at which a token of one or of two characters begins
OperatorStarts == {">", "<", "=", "!", "&", "|", "."}

\* the byte of the source at position i counted from 0, NUL past its end
SourceByte(i) == IF i < Len(lx.src) THEN lx.src[i + 1] ELSE NUL

\* the byte after the one at position i completes a token of two characters
Completes(i) == \E e \in TwoCharTypes : e[1] = << SourceByte(i), SourceByte(i + 1) >>

\* the token recorded in e is the longest one that begins at its first byte
LongestAt(e) ==
    LET c == SourceByte(e.start)
        d == SourceByte(e.start + 1)
    IN  IF Completes(e.start)
        THEN /\ e.tok.Type = TypeIn(TwoCharTypes, << c, d >>)
             /\ e.tok.Literal = << c, d >>
             /\ e.to = e.start + 2
        ELSE /\ e.tok.Type = c
             /\ e.tok.Literal = << c >>
             /\ e.to = e.start + 1

\* the bytes consumed for the i-th token follow those of the one before it,
\* and are whitespace up to the token's first byte
InOrder(i) ==
    LET e == emitted[i]
    IN  /\ e.from = IF i = 1 THEN 0 ELSE emitted[i - 1].to
        /\ e.from <= e.start
        /\ \A k \in e.from .. (e.start - 1) : SourceByte(k) \in {" ", "\t", "\n", "\r", "\f"}
        /\ e.start < e.to
        /\ e.tok.Type = "EOF" <=> e.start = Len(lx.src)
        /\ e.tok.Type # "EOF" => e.to <= Len(lx.src)

\* C20: at each of > < = ! & | . the lexer emits the token of two characters
\* exactly when the next byte completes it, consuming both bytes, and the
\* token of one character, consuming one byte, otherwise; the tokens come out
\* in source order, every byte of the source read so far belonging to exactly
\* one token or to the whitespace skipped before one.
C20_LongestMatch ==
    lx.status = "ok" =>
        /\ \A i \in 1 .. Len(emitted) :
              /\ InOrder(i)
              /\ SourceByte(emitted[i].start) \in OperatorStarts => LongestAt(emitted[i])
              /\ (\E e \in TwoCharTypes : e[2] = emitted[i].tok.Type) =>
                    /\ SourceByte(emitted[i].start) \in OperatorStarts
                    /\ Completes(emitted[i].start)
        /\ lx.pos = IF emitted = << >> THEN 0 ELSE emitted[Len(emitted)].to

\* a source lexed to its end in which one operator character is followed by a
\* byte that does not complete it and another by one that does
C20_Witness ==
    /\ lx.status = "ok"
    /\ AtEOF
    /\ \E i, j \in 1 .. Len(emitted) :
          /\ SourceByte(emitted[i].start) \in OperatorStarts
          /\ SourceByte(emitted[i].start + 1) \in OperatorStarts
          /\ emitted[i].to = emitted[i].start + 1
          /\ emitted[j].to = emitted[j].start + 2
          /\ emitted[j].tok.Type \in {">=", ">>", "<=", "<<", "==", "!=", "&&", "||", ".."}

-----------------------------------------------------------------------------
(* The scope of a for statement *)

\* C22: a for statement runs all its iterations in one new scope that is a
\* child of the current scope: after the loop the key and value names, and
\* anything declared with var in the body, are no longer bound by the loop, a
\* variable of the enclosing scope with the same name as the key has its
\* pre-loop value, assignments the body made to variables of enclosing scopes
\* persist, and the statement yields Nop.
C22_ForScope ==
    Done("forscope") =>
        /\ ev.status = "ok"
        /\ ev.Scope = 1
        /\ Len(ev.Scopes) = (IF prog.ctx = "func" THEN 3 ELSE 2)
        /\ ev.Scopes[Len(ev.Scopes)].Parent = Len(ev.Scopes) - 1
        /\ FramesWith(ev, "k") = (IF prog.shadow THEN {1} ELSE {})
        /\ prog.shadow => IsIntOf(ev, GlobalOf(ev, "k"), 3)
        /\ FramesWith(ev, "v") = {}
        /\ FramesWith(ev, "x") = {1}
        /\ IsIntOf(ev, GlobalOf(ev, "x"),
                   IF prog.assigns /\ prog.lo <= prog.hi THEN prog.hi ELSE 3)
        /\ ~Lookup(ev.Scopes, ev.Scope, "loc").ok
        /\ IF ~prog.probe THEN outcome = NopInstance
           ELSE /\ outcome.type = ArrayType
                /\ IF prog.shadow THEN IsIntOf(ev, outcome.Values[1], 3)
                   ELSE outcome.Values[1] = UnboundError("k")
                /\ outcome.Values[2] = UnboundError("v")
                /\ outcome.Values[3] = UnboundError("loc")
                /\ IsIntOf(ev, outcome.Values[4],
                           IF prog.assigns /\ prog.lo <= prog.hi THEN prog.hi ELSE 3)

\* for k, v in 0..2 { var loc = v  x = k  k = 0 }  inside f, after  var k = 3
C22_Witness ==
    /\ Done("forscope") /\ prog.ctx = "func" /\ prog.shadow /\ prog.value
    /\ prog.lo = 0 /\ prog.hi = 2
    /\ prog.declares /\ prog.assigns /\ prog.assignsKey /\ prog.probe
    /\ IsIntOf(ev, outcome.Values[1], 3)
    /\ IsIntOf(ev, outcome.Values[4], 2)
    /\ outcome.Values[3].type = ErrorType
    /\ Has(ev.Scopes[3].Variables, "loc")

-----------------------------------------------------------------------------
(* The frame of a call *)

\* the value of x that the caller f sees before the call: its own, the
\* global one, or none (-1)
CallerSees == IF prog.fx THEN 1 ELSE IF prog.gx THEN 0 ELSE 0 - 1

\* v is what evaluating x yields when x is bound to n, or to nothing (-1)
YieldsX(v, n) == IF n = 0 - 1 THEN v = UnboundError("x") ELSE IsIntOf(ev, v, n)

\* C23: the frame created for a function or method call has as parent the
\* scope that is current at the call site, not the scope where the function
\* was declared: inside the callee a name that is neither a parameter nor
\* declared locally resolves to the caller's nearest binding,  x = v  in the
\* callee overwrites the caller's variable x, and parameters or var
\* declarations of the callee never overwrite a binding of the caller.
C23_CallSiteParent ==
    Done("callsite") =>
        /\ ev.status = "ok"
        /\ Len(ev.Scopes) = 3
        /\ ev.Scopes[3].Parent = 2
        /\ ev.Scopes[2].Parent = 1
        /\ outcome.type = ArrayType
        /\ prog.callee = "read" => YieldsX(outcome.Values[1], CallerSees)
        /\ prog.callee = "param" => IsIntOf(ev, outcome.Values[1], 2)
        /\ prog.callee = "assign" =>
              /\ YieldsX(outcome.Values[1], IF CallerSees = 0 - 1 THEN 0 - 1 ELSE 2)
              /\ YieldsX(outcome.Values[2], IF CallerSees = 0 - 1 THEN 0 - 1 ELSE 2)
              /\ (prog.gx /\ prog.fx) => IsIntOf(ev, GlobalOf(ev, "x"), 0)
              /\ ~Has(ev.Scopes[3].Variables, "x")
        /\ prog.callee # "assign" =>
              /\ YieldsX(outcome.Values[2], CallerSees)
              /\ prog.gx => IsIntOf(ev, GlobalOf(ev, "x"), 0)
              /\ prog.fx => IsIntOf(ev, ev.Scopes[2].Variables["x"], 1)
        /\ prog.callee \in {"declare", "param"} =>
              /\ Has(ev.Scopes[3].Variables, "x")
              /\ IsIntOf(ev, ev.Scopes[3].Variables["x"], 2)

\* g, declared at the root where x is 0, assigns x when called from f, where
\* x is 1: the x of f is overwritten
C23_Witness ==
    /\ Done("callsite") /\ prog.via = "call" /\ prog.callee = "assign"
    /\ prog.gx /\ prog.fx
    /\ IsIntOf(ev, outcome.Values[2], 2)
    /\ IsIntOf(ev, GlobalOf(ev, "x"), 0)
    /\ ev.Scopes[3].Parent = 2

-----------------------------------------------------------------------------
(* Prefix operators *)

\* C26: a prefix operator applies only to the operand that immediately
\* follows it: for all Ints a and b,  -a + b  evaluates to (-a) + b, and for
\* all Bools a and b,  !a == b  evaluates to (!a) == b.
C26_PrefixBindsTight ==
    Ran("prefix") =>
        /\ pstate.status = "ok"
        /\ ~HasAny(pstate)
        /\ ev.status = "ok"
        /\ IF prog.op = "-"
           THEN IsIntOf(ev, outcome, Wrap((0 - prog.a) + prog.b))
           ELSE outcome = boolValue((~prog.x) = prog.y)

\* C27: evaluating a prefix minus changes no stored value: if variable x is
\* bound to Int n, then after evaluating  -x , alone or inside a larger
\* expression, x still evaluates to n, and so does every other variable,
\* array element or field that was bound from x.
C27_MinusKeepsOperand ==
    Done("neg") =>
        /\ ev.status = "ok"
        /\ outcome.type = ArrayType
        /\ \A i \in 1..4 : IsIntOf(ev, outcome.Values[i], prog.n)

-----------------------------------------------------------------------------
(* Errors and stored values *)

\* the Error that E evaluates to
ErrValue(kind) ==
    IF kind = "unbound" THEN UnboundError("u")
    ELSE CreateError("Cannot apply operator %s on given types %v and %v",
                     << "<", IntType, BoolType >>)

\* v is no Error and, if an array, holds none
HoldsNoError(v) ==
    /\ v.type # ErrorType
    /\ v.type = ArrayType => \A i \in 1..v.Length : v.Values[i].type # ErrorType

\* no variable, field or array element of the evaluator holds an Error
NoStoredError ==
    /\ \A a \in 1..Len(ev.Scopes) : \A name \in DOMAIN ev.Scopes[a].Variables :
          HoldsNoError(ev.Scopes[a].Variables[name])
    /\ \A i \in 1..Len(ev.insts) : \A name \in DOMAIN ev.insts[i].Fields :
          HoldsNoError(ev.insts[i].Fields[name])

\* C28: when the right-hand side of  x = E  (or of a field assignment
\* obj.f = E ) evaluates to an Error, the assignment yields that Error and the
\* variable (or field) keeps the value it had before, just as a failed
\* var x = E  creates no binding; no variable, field or array element ever
\* holds an Error value.
C28_ErrorsNotStored ==
    Done("errstore") =>
        /\ ev.status = "ok"
        /\ NoStoredError
        /\ IsIntOf(ev, GlobalOf(ev, "x"), 1)
        /\ Has(ev.insts[1].Fields, "f") /\ IsIntOf(ev, ev.insts[1].Fields["f"], 1)
        /\ prog.kind \in {"assign", "field", "declare"} => outcome = ErrValue(prog.rhs)
        /\ prog.kind = "declare" => ~Has(ev.Scopes[1].Variables, "z")

-----------------------------------------------------------------------------
(* Calls with a wrong number of arguments *)

\* C29: a call whose argument count differs from the declared parameter
\* count never aborts the evaluator: calling a user-defined function with
\* fewer arguments than it declares parameters, or  new T(args)  with more
\* arguments than T's init declares, yields a value or an Error, as a method
\* call with too few arguments does.
C29_ArityNeverAborts ==
    (phase = "done" /\ prog.family \in {"arity", "new", "method"}) =>
        /\ ev.status = "ok"
        /\ ~IsNil(outcome)

-----------------------------------------------------------------------------
(* The size of a Str *)

\* the operand is, or is promoted to, a Str
Stringable(o) == o.kind \in {StrType, IntType, BoolType}

\* the binary expressions that produce a Str:  +  with a Str on one side and
\* a Str, Int or Bool on the other,  *  of a Str and a non-negative Int
ProducesStr ==
    /\ Done("binop")
    /\ StrType \in {prog.l.kind, prog.r.kind}
    /\ \/ prog.op = "+" /\ Stringable(prog.l) /\ Stringable(prog.r)
       \/ /\ prog.op = "*"
          /\ \/ prog.l.kind = IntType /\ prog.l.int >= 0
             \/ prog.r.kind = IntType /\ prog.r.int >= 0

\* C30: every Str value produced by evaluation has a size equal to the
\* length of its text: for string literals, for  +  with a Str on one side
\* and a Str, Int or Bool on the other (in either order), and for  *
\* repetition of a Str by a non-negative Int count.
C30_StrSizeIsLength ==
    ProducesStr =>
        /\ ev.status = "ok"
        /\ outcome.type = StrType
        /\ outcome.Size = Len(outcome.sval)

====
